---- MODULE Spec2Model ----
(***************************************************************************)
(* A model of the KOAssistant translation tools: scripts/translate.py      *)
(* ("v1"), scripts/translate_v2.py ("v2") and translate_po.py.             *)
(*                                                                         *)
(* A string is a sequence of one-character strings; a text file is a       *)
(* sequence of lines (each a string without the newline character).        *)
(***************************************************************************)
EXTENDS Integers, Sequences, FiniteSets, TLC

VARIABLES
    pc,           \* the step the modelled invocation is at
    tool,         \* "v1" (translate.py) or "v2" (translate_v2.py)
    poFile,       \* the catalog file: a sequence of lines
    entries,      \* the in-memory catalog of the running invocation
    mappingFile,  \* exports/LANG_mapping.json: Absent, or number -> msgid
    importFile,   \* exports/LANG.txt: Absent, or a sequence of lines
    result,       \* what the last operation returned
    source,       \* validator input: the source string
    translation   \* validator input: the translated string

vars == <<pc, tool, poFile, entries, mappingFile, importFile, result,
          source, translation>>

(***************************************************************************)
(* Characters and Python's str operations                                  *)
(***************************************************************************)
NL == "\n"
TAB == "\t"
BS == "\\"
DQ == "\""
SP == " "

\* a file that does not exist, and a file with its content
Absent == [exists |-> FALSE, content |-> <<>>]

File(c) == [exists |-> TRUE, content |-> c]

RECURSIVE Concat(_)
\* ''.join(parts)
Concat(parts) ==
    IF parts = <<>> THEN <<>> ELSE Head(parts) \o Concat(Tail(parts))

StartsWith(s, p) == Len(s) >= Len(p) /\ SubSeq(s, 1, Len(p)) = p

EndsWith(s, p) ==
    Len(s) >= Len(p) /\ SubSeq(s, Len(s) - Len(p) + 1, Len(s)) = p

Drop(s, n) == SubSeq(s, n + 1, Len(s))

\* sub in s
Contains(s, sub) ==
    \E i \in 1..(Len(s) - Len(sub) + 1) : SubSeq(s, i, i + Len(sub) - 1) = sub

RECURSIVE Replace(_, _, _)
\* s.replace(old, new): left to right, non-overlapping; old is not empty
Replace(s, old, new) ==
    IF Len(s) < Len(old) THEN s
    ELSE IF StartsWith(s, old)
         THEN new \o Replace(Drop(s, Len(old)), old, new)
         ELSE <<Head(s)>> \o Replace(Tail(s), old, new)

RECURSIVE ReplaceFirst(_, _, _)
\* s.replace(old, new, 1)
ReplaceFirst(s, old, new) ==
    IF Len(s) < Len(old) THEN s
    ELSE IF StartsWith(s, old)
         THEN new \o Drop(s, Len(old))
         ELSE <<Head(s)>> \o ReplaceFirst(Tail(s), old, new)

RECURSIVE Count(_, _)
\* s.count(sub): non-overlapping occurrences; sub is not empty
Count(s, sub) ==
    IF Len(s) < Len(sub) THEN 0
    ELSE IF StartsWith(s, sub)
         THEN 1 + Count(Drop(s, Len(sub)), sub)
         ELSE Count(Tail(s), sub)

RECURSIVE Split(_, _)
\* s.split(c) for a one-character separator c
Split(s, c) ==
    IF \A i \in 1..Len(s) : s[i] # c THEN <<s>>
    ELSE LET k == CHOOSE i \in 1..Len(s) :
                      s[i] = c /\ \A j \in 1..(i - 1) : s[j] # c
         IN  <<SubSeq(s, 1, k - 1)>> \o Split(Drop(s, k), c)

RECURSIVE Join(_, _)
\* sep.join(parts)
Join(parts, sep) ==
    IF parts = <<>> THEN <<>>
    ELSE IF Len(parts) = 1 THEN parts[1]
    ELSE parts[1] \o sep \o Join(Tail(parts), sep)

IsSpace(c) == c \in {SP, TAB, NL}

RECURSIVE LStrip(_)
LStrip(s) == IF s # <<>> /\ IsSpace(Head(s)) THEN LStrip(Tail(s)) ELSE s

RECURSIVE RStrip(_)
RStrip(s) ==
    IF s # <<>> /\ IsSpace(s[Len(s)]) THEN RStrip(SubSeq(s, 1, Len(s) - 1)) ELSE s

\* s.strip()
Strip(s) == LStrip(RStrip(s))

LowerLetters == <<"a", "b", "c", "d", "e", "f", "g", "h", "i", "j", "k", "l", "m",
                  "n", "o", "p", "q", "r", "s", "t", "u", "v", "w", "x", "y", "z">>

UpperLetters == <<"A", "B", "C", "D", "E", "F", "G", "H", "I", "J", "K", "L", "M",
                  "N", "O", "P", "Q", "R", "S", "T", "U", "V", "W", "X", "Y", "Z">>

MapChar(c, from, to) ==
    IF \E k \in 1..Len(from) : from[k] = c
    THEN to[CHOOSE k \in 1..Len(from) : from[k] = c]
    ELSE c

\* s.upper()
Upper(s) == [i \in 1..Len(s) |-> MapChar(s[i], LowerLetters, UpperLetters)]

\* s.lower()
Lower(s) == [i \in 1..Len(s) |-> MapChar(s[i], UpperLetters, LowerLetters)]

\* list.count(x)
ListCount(l, x) == Cardinality({i \in 1..Len(l) : l[i] = x})

RECURSIVE SetToSeq(_)
\* a set of strings in an order (the iteration order of a Python set is not specified,
\* and the results built from it are compared as sets)
SetToSeq(S) ==
    IF S = {} THEN <<>>
    ELSE LET x == CHOOSE y \in S : TRUE IN <<x>> \o SetToSeq(S \ {x})

Range(f) == {f[i] : i \in DOMAIN f}

(***************************************************************************)
(* Configuration lists                                                     *)
(***************************************************************************)
BRANDS_V2 == << <<"K","O","A","s","s","i","s","t","a","n","t">>,
                <<"K","O","R","e","a","d","e","r">>,
                <<"(","K","O","A",")">> >>

BRANDS_V1 == << <<"K","O","A","s","s","i","s","t","a","n","t">>,
                <<"K","O","R","e","a","d","e","r">> >>

\* the same list in translate.py and translate_v2.py
PROVIDERS ==
    << <<"C","l","a","u","d","e">>,
       <<"G","P","T">>,
       <<"O","p","e","n","A","I">>,
       <<"A","n","t","h","r","o","p","i","c">>,
       <<"D","e","e","p","S","e","e","k">>,
       <<"G","e","m","i","n","i">>,
       <<"O","l","l","a","m","a">>,
       <<"G","r","o","q">>,
       <<"M","i","s","t","r","a","l">>,
       <<"x","A","I">>,
       <<"O","p","e","n","R","o","u","t","e","r">>,
       <<"Q","w","e","n">>,
       <<"K","i","m","i">>,
       <<"T","o","g","e","t","h","e","r">>,
       <<"F","i","r","e","w","o","r","k","s">>,
       <<"S","a","m","b","a","N","o","v","a">>,
       <<"C","o","h","e","r","e">>,
       <<"D","o","u","b","a","o">> >>

TECH_TERMS == << <<"A","P","I">> >>

NEWLINE_MARKER == <<"[","N","L","]">>

Digits19 == {"1", "2", "3", "4", "5", "6", "7", "8", "9"}

(***************************************************************************)
(* NewlineHandler (v2)                                                     *)
(***************************************************************************)
NewlineEncode(text) == Replace(text, <<NL>>, NEWLINE_MARKER)

NewlineDecode(text) == Replace(text, NEWLINE_MARKER, <<NL>>)

(***************************************************************************)
(* PlaceholderValidator (v2)                                               *)
(***************************************************************************)
RECURSIVE FindAll(_, _)
\* re.findall(r'%[X]', text) for a character class X
FindAll(text, class) ==
    IF Len(text) < 2 THEN <<>>
    ELSE IF text[1] = "%" /\ text[2] \in class
         THEN <<SubSeq(text, 1, 2)>> \o FindAll(Drop(text, 2), class)
         ELSE FindAll(Tail(text), class)

extract_placeholders(text) == FindAll(text, Digits19)

WrongFormat(text) == FindAll(text, {"s", "d", "f"})

SelectBrands(brands, src, trans) ==
    SelectSeq(brands, LAMBDA b : Contains(src, b) /\ ~Contains(trans, b))

\* PlaceholderValidator.validate: the list of errors, each a tagged tuple
PlaceholderValidate(src, trans) ==
    LET source_ph == extract_placeholders(src)
        trans_ph  == extract_placeholders(trans)
        bad == {ph \in Range(source_ph) :
                   ListCount(source_ph, ph) # ListCount(trans_ph, ph)}
        e1 == [i \in 1..Cardinality(bad) |-> <<"placeholder", SetToSeq(bad)[i]>>]
        e2 == IF source_ph # <<>> /\ WrongFormat(trans) # <<>>
              THEN << <<"wrong_format">> >> ELSE <<>>
        e3 == IF Count(src, NEWLINE_MARKER) # Count(trans, NEWLINE_MARKER)
              THEN << <<"newline">> >> ELSE <<>>
        missing == SelectBrands(BRANDS_V2, src, trans)
        e4 == [i \in 1..Len(missing) |-> <<"brand", missing[i]>>]
    IN  e1 \o e2 \o e3 \o e4

\* PlaceholderValidator.validate_warnings
ValidateWarnings(src, trans) ==
    LET mp == SelectSeq(PROVIDERS, LAMBDA p : Contains(src, p) /\ ~Contains(trans, p))
        mt == SelectSeq(TECH_TERMS, LAMBDA t :
                  Contains(Upper(src), Upper(t)) /\ ~Contains(Upper(trans), Upper(t)))
    IN  [i \in 1..Len(mp) |-> <<"provider", mp[i]>>]
        \o [i \in 1..Len(mt) |-> <<"term", mt[i]>>]

AutoFixLoop_FirstOnly(res, wrong, source_ph, i) ==
    ReplaceFirst(res, wrong[1], source_ph[1])

RECURSIVE AutoFixLoop(_, _, _, _)
\* the loop of auto_fix: i is the 0-based index into wrong_placeholders
AutoFixLoop(res, wrong, source_ph, i) ==
    IF i >= Len(wrong) THEN res
    ELSE IF i < Len(source_ph)
         THEN AutoFixLoop(ReplaceFirst(res, wrong[i + 1], source_ph[i + 1]),
                          wrong, source_ph, i + 1)
         ELSE AutoFixLoop(res, wrong, source_ph, i + 1)

Min(a, b) == IF a < b THEN a ELSE b

\* PlaceholderValidator.auto_fix: (fixed, number of fixes applied)
auto_fix(src, trans) ==
    LET source_ph == extract_placeholders(src)
        wrong == WrongFormat(trans)
    IN  IF wrong # <<>> /\ source_ph # <<>>
        THEN [fixed |-> AutoFixLoop(trans, wrong, source_ph, 0),
              fixes |-> Min(Len(wrong), Len(source_ph))]
        ELSE [fixed |-> trans, fixes |-> 0]

(***************************************************************************)
(* validate_entry (v1)                                                     *)
(***************************************************************************)
\* the issues validate_entry reports through add_issue, in order
EntryIssues(msgid, msgstr) ==
    LET phs == SelectSeq(<<"1", "2", "3", "4", "5", "6", "7", "8", "9">>,
                   LAMBDA d : Count(msgid, <<"%", d>>) # Count(msgstr, <<"%", d>>))
        i1 == [i \in 1..Len(phs) |-> <<"placeholder", <<"%", phs[i]>> >>]
        i2 == IF extract_placeholders(msgid) # <<>> /\ WrongFormat(msgstr) # <<>>
              THEN << <<"wrong_format">> >> ELSE <<>>
        missing == SelectBrands(BRANDS_V1, msgid, msgstr)
        i3 == [i \in 1..Len(missing) |-> <<"brand", missing[i]>>]
    IN  i1 \o i2 \o i3

validate_entry_NeverDowngrades(msgid, msgstr, is_fuzzy) ==
    IF msgid = <<>> \/ msgstr = <<>> THEN [errors |-> <<>>, warnings |-> <<>>]
    ELSE [errors |-> EntryIssues(msgid, msgstr), warnings |-> ValidateWarnings(msgid, msgstr)]

\* validate_entry on a fresh ValidationResult: [errors, warnings]
validate_entry(msgid, msgstr, is_fuzzy) ==
    IF msgid = <<>> \/ msgstr = <<>> THEN [errors |-> <<>>, warnings |-> <<>>]
    ELSE LET issues == EntryIssues(msgid, msgstr)
             w == ValidateWarnings(msgid, msgstr)
         IN  IF is_fuzzy
             THEN [errors |-> <<>>, warnings |-> issues \o w]
             ELSE [errors |-> issues, warnings |-> w]

(***************************************************************************)
(* PO codec (the same code in translate.py and translate_v2.py, except for *)
(* one condition of write_po_file)                                         *)
(***************************************************************************)
MSGID_WRAP == 70

DigitChars == {"0", "1", "2", "3", "4", "5", "6", "7", "8", "9"}

DigitVal(c) ==
    CASE c = "0" -> 0 [] c = "1" -> 1 [] c = "2" -> 2 [] c = "3" -> 3 [] c = "4" -> 4
      [] c = "5" -> 5 [] c = "6" -> 6 [] c = "7" -> 7 [] c = "8" -> 8 [] c = "9" -> 9

RECURSIVE ParseInt(_)
\* int(s) for a non-empty string of digits
ParseInt(s) ==
    IF Len(s) = 1 THEN DigitVal(s[1])
    ELSE 10 * ParseInt(SubSeq(s, 1, Len(s) - 1)) + DigitVal(s[Len(s)])

DigitChar(d) ==
    CASE d = 0 -> "0" [] d = 1 -> "1" [] d = 2 -> "2" [] d = 3 -> "3" [] d = 4 -> "4"
      [] d = 5 -> "5" [] d = 6 -> "6" [] d = 7 -> "7" [] d = 8 -> "8" [] d = 9 -> "9"

RECURSIVE IntToStr(_)
\* str(n) for n >= 0
IntToStr(n) ==
    IF n < 10 THEN <<DigitChar(n)>> ELSE IntToStr(n \div 10) \o <<DigitChar(n % 10)>>

\* the length of the longest prefix of s made of digits
DigitPrefix(s) ==
    CHOOSE k \in 0..Len(s) :
        /\ \A i \in 1..k : s[i] \in DigitChars
        /\ (k < Len(s) => s[k + 1] \notin DigitChars)

RECURSIVE SplitWS(_)
\* s.split(): the words between runs of whitespace
SplitWS(s) ==
    LET t == LStrip(s)
    IN  IF t = <<>> THEN <<>>
        ELSE IF \A i \in 1..Len(t) : ~IsSpace(t[i]) THEN <<t>>
        ELSE LET k == CHOOSE i \in 1..Len(t) :
                          IsSpace(t[i]) /\ \A j \in 1..(i - 1) : ~IsSpace(t[j])
             IN  <<SubSeq(t, 1, k - 1)>> \o SplitWS(Drop(t, k))

unescape_po_string(s) ==
    Replace(Replace(Replace(Replace(s, <<BS, "n">>, <<NL>>),
                            <<BS, "t">>, <<TAB>>),
                    <<BS, DQ>>, <<DQ>>),
            <<BS, BS>>, <<BS>>)

escape_po_string(s) ==
    Replace(Replace(Replace(Replace(s, <<BS>>, <<BS, BS>>),
                            <<DQ>>, <<BS, DQ>>),
                    <<NL>>, <<BS, "n">>),
            <<TAB>>, <<BS, "t">>)

Quoted(s) == <<DQ>> \o s \o <<DQ>>

Str_msgid == <<"m", "s", "g", "i", "d">>
Str_msgstr == <<"m", "s", "g", "s", "t", "r">>
Str_plural == <<"_", "p", "l", "u", "r", "a", "l">>
Str_fuzzy == <<"f", "u", "z", "z", "y">>

\* POEntry()
NewEntry ==
    [comments |-> <<>>, references |-> <<>>, flags |-> <<>>, msgid |-> <<>>,
     msgid_plural |-> <<>>, msgstr |-> <<>>, msgstr_plural |-> <<>>,
     is_header |-> FALSE]

is_fuzzy(e) == \E i \in 1..Len(e.flags) : e.flags[i] = Str_fuzzy

is_translated(e) == e.msgstr # <<>> /\ ~e.is_header

is_verified(e) == is_translated(e) /\ ~is_fuzzy(e)

is_empty(e) == e.msgstr = <<>> /\ ~e.is_header

\* format_msgstr_for_po
format_msgstr_for_po(msgstr) ==
    IF msgstr = <<>> THEN << Str_msgstr \o <<SP>> \o Quoted(<<>>) >>
    ELSE IF Contains(msgstr, <<NL>>)
    THEN LET parts == Split(msgstr, NL)
             n == Len(parts)
             body == [i \in 1..n |->
                        IF i < n
                        THEN << Quoted(escape_po_string(parts[i]) \o <<BS, "n">>) >>
                        ELSE IF parts[i] # <<>>
                             THEN << Quoted(escape_po_string(parts[i])) >>
                             ELSE <<>>]
         IN  << Str_msgstr \o <<SP>> \o Quoted(<<>>) >> \o Concat(body)
    ELSE << Str_msgstr \o <<SP>> \o Quoted(escape_po_string(msgstr)) >>

\* the msgid lines of write_po_file
FormatMsgid(msgid) ==
    IF Contains(msgid, <<NL>>) \/ Len(msgid) > MSGID_WRAP
    THEN LET parts == Split(msgid, NL)
             last == parts[Len(parts)]
             body == [i \in 1..Len(parts) |->
                        IF parts[i] # last
                        THEN << Quoted(escape_po_string(parts[i]) \o <<BS, "n">>) >>
                        ELSE IF parts[i] # <<>>
                             THEN << Quoted(escape_po_string(parts[i])) >>
                             ELSE <<>>]
         IN  << Str_msgid \o <<SP>> \o Quoted(<<>>) >> \o Concat(body)
    ELSE << Str_msgid \o <<SP>> \o Quoted(escape_po_string(msgid)) >>

\* [fl.strip() for fl in comment[2:].split(',')]
FlagsOfLine(rest) ==
    LET parts == Split(rest, ",") IN [i \in 1..Len(parts) |-> Strip(parts[i])]

\* write_po_file that drops the whole flag line instead of the fuzzy flag alone
WriteComments_DropsFlagLine(e, should_remove_fuzzy, should_add_fuzzy) ==
    LET one(comment) ==
            IF StartsWith(comment, <<"#", ",">>)
            THEN LET f0 == FlagsOfLine(Drop(comment, 2))
                     f1 == IF should_remove_fuzzy /\ Str_fuzzy \in Range(f0)
                           THEN <<>> ELSE f0
                     f2 == IF should_add_fuzzy /\ Str_fuzzy \notin Range(f1)
                           THEN Append(f1, Str_fuzzy) ELSE f1
                 IN  IF f2 # <<>>
                     THEN << <<"#", ",", SP>> \o Join(f2, <<",", SP>>) >>
                     ELSE <<>>
            ELSE <<comment>>
        wrote_fuzzy_line ==
            \E i \in 1..Len(e.comments) : StartsWith(e.comments[i], <<"#", ",">>)
    IN  Concat([i \in 1..Len(e.comments) |-> one(e.comments[i])])
        \o (IF should_add_fuzzy /\ ~wrote_fuzzy_line
            THEN << <<"#", ",", SP>> \o Str_fuzzy >> ELSE <<>>)

\* the comment lines write_po_file writes for one entry
WriteComments(e, should_remove_fuzzy, should_add_fuzzy) ==
    LET one(comment) ==
            IF StartsWith(comment, <<"#", ",">>)
            THEN LET f0 == FlagsOfLine(Drop(comment, 2))
                     f1 == IF should_remove_fuzzy
                           THEN SelectSeq(f0, LAMBDA fl : fl # Str_fuzzy) ELSE f0
                     f2 == IF should_add_fuzzy /\ Str_fuzzy \notin Range(f1)
                           THEN Append(f1, Str_fuzzy) ELSE f1
                 IN  IF f2 # <<>>
                     THEN << <<"#", ",", SP>> \o Join(f2, <<",", SP>>) >>
                     ELSE <<>>
            ELSE <<comment>>
        wrote_fuzzy_line ==
            \E i \in 1..Len(e.comments) : StartsWith(e.comments[i], <<"#", ",">>)
    IN  Concat([i \in 1..Len(e.comments) |-> one(e.comments[i])])
        \o (IF should_add_fuzzy /\ ~wrote_fuzzy_line
            THEN << <<"#", ",", SP>> \o Str_fuzzy >> ELSE <<>>)

\* the lines write_po_file writes for one entry
WriteEntry(e, should_remove_fuzzy, should_add_fuzzy) ==
    WriteComments(e, should_remove_fuzzy, should_add_fuzzy)
    \o FormatMsgid(e.msgid)
    \o (IF e.msgid_plural # <<>>
        THEN << Str_msgid \o Str_plural \o <<SP>> \o Quoted(escape_po_string(e.msgid_plural)) >>
        ELSE <<>>)
    \o format_msgstr_for_po(e.msgstr)
    \o [i \in 1..Len(e.msgstr_plural) |->
          Str_msgstr \o <<"[">> \o IntToStr(i - 1) \o <<"]", SP>>
          \o Quoted(escape_po_string(e.msgstr_plural[i]))]

\* translate.py adds the flag only to an entry that is not verified
ShouldAddFuzzy(t, e, add_fuzzy_for) ==
    IF t = "v1"
    THEN e.msgid \in add_fuzzy_for /\ ~is_verified(e)
    ELSE e.msgid \in add_fuzzy_for

\* write_po_file: the lines of the file written
write_po_file(t, ents, remove_fuzzy_for, add_fuzzy_for) ==
    Concat([i \in 1..Len(ents) |->
              WriteEntry(ents[i], ents[i].msgid \in remove_fuzzy_for,
                         ShouldAddFuzzy(t, ents[i], add_fuzzy_for))
              \o (IF i < Len(ents) THEN << <<>> >> ELSE <<>>)])

\* value[1:-1] when value starts and ends with a double quote; otherwise no value
QuotedValue(value) ==
    IF StartsWith(value, <<DQ>>) /\ EndsWith(value, <<DQ>>)
    THEN [ok |-> TRUE, v |-> unescape_po_string(SubSeq(value, 2, Len(value) - 1))]
    ELSE [ok |-> FALSE, v |-> <<>>]

\* re.match(r'msgstr\[(\d+)\] "(.*)"', line): the index and the text up to the
\* last double quote of the line
MatchPlural(line) ==
    LET pre == Str_msgstr \o <<"[">>
        rest == Drop(line, Len(pre))
        k == DigitPrefix(rest)
        after == Drop(rest, k)
        body == Drop(after, 3)
        quotes == {i \in 1..Len(body) : body[i] = DQ}
    IN  IF /\ StartsWith(line, pre)
           /\ k >= 1
           /\ StartsWith(after, <<"]", SP, DQ>>)
           /\ quotes # {}
        THEN [ok |-> TRUE, idx |-> ParseInt(SubSeq(rest, 1, k)),
              v |-> SubSeq(body, 1, (CHOOSE i \in quotes : \A j \in quotes : j <= i) - 1)]
        ELSE [ok |-> FALSE, idx |-> 0, v |-> <<>>]

\* while len(l) <= idx: l.append("")
PadTo(l, idx) == [i \in 1..(IF Len(l) > idx THEN Len(l) ELSE idx + 1) |->
                    IF i <= Len(l) THEN l[i] ELSE <<>>]

NoField == "none"

\* a parser state: the entries emitted, the entry being read (cur, when open)
\* and the field a continuation line goes to
ParseStart == [entries |-> <<>>, open |-> FALSE, cur |-> NewEntry, field |-> NoField,
               idx |-> 0]

Emit(st) ==
    IF st.open /\ (st.cur.msgid # <<>> \/ st.cur.is_header)
    THEN Append(st.entries, st.cur) ELSE st.entries

\* a loop body that appends every continuation line to msgstr
ParseLine_ContinuationToMsgstr(st, line) ==
    IF Strip(line) = <<>>
    THEN [st EXCEPT !.entries = Emit(st), !.open = FALSE, !.cur = NewEntry,
                    !.field = NoField]
    ELSE
    LET cur == st.cur
        s1 == [st EXCEPT !.open = TRUE]
        q == QuotedValue(Strip(Drop(line, IF StartsWith(line, Str_msgstr) THEN 7
                                          ELSE IF StartsWith(line, Str_msgid \o Str_plural)
                                          THEN 13 ELSE 6)))
    IN  IF StartsWith(line, <<"#">>)
        THEN [s1 EXCEPT !.cur.comments = Append(@, line)]
        ELSE IF StartsWith(line, Str_msgid \o <<SP>>)
        THEN [s1 EXCEPT !.field = "msgid", !.cur.msgid = IF q.ok THEN q.v ELSE @]
        ELSE IF StartsWith(line, Str_msgid \o Str_plural \o <<SP>>)
        THEN [s1 EXCEPT !.field = "msgid_plural",
                        !.cur.msgid_plural = IF q.ok THEN q.v ELSE @]
        ELSE IF StartsWith(line, Str_msgstr \o <<SP>>)
        THEN [s1 EXCEPT !.field = "msgstr", !.cur.msgstr = IF q.ok THEN q.v ELSE @]
        ELSE IF MatchPlural(line).ok
        THEN [s1 EXCEPT !.field = "msgstr_plural", !.idx = MatchPlural(line).idx,
                 !.cur.msgstr_plural =
                     [PadTo(@, MatchPlural(line).idx) EXCEPT ![MatchPlural(line).idx + 1] =
                          unescape_po_string(MatchPlural(line).v)]]
        ELSE IF StartsWith(line, <<DQ>>) /\ EndsWith(line, <<DQ>>) /\ st.field # NoField
        THEN [s1 EXCEPT !.cur.msgstr =
                 @ \o unescape_po_string(SubSeq(line, 2, Len(line) - 1))]
        ELSE s1

\* one iteration of the loop of parse_po_file
ParseLine(st, line) ==
    IF Strip(line) = <<>>
    THEN [st EXCEPT !.entries = Emit(st), !.open = FALSE, !.cur = NewEntry,
                    !.field = NoField]
    ELSE
    LET cur == st.cur
        s1 == [st EXCEPT !.open = TRUE]
    IN  IF StartsWith(line, <<"#">>)
        THEN LET c1 == [cur EXCEPT !.comments = Append(@, line)]
                 c2 == IF StartsWith(line, <<"#", ":">>)
                       THEN [c1 EXCEPT !.references = @ \o SplitWS(Drop(line, 2))]
                       ELSE IF StartsWith(line, <<"#", ",">>)
                       THEN [c1 EXCEPT !.flags = @ \o FlagsOfLine(Strip(Drop(line, 2)))]
                       ELSE c1
             IN  [s1 EXCEPT !.cur = c2]
        ELSE IF StartsWith(line, Str_msgid \o <<SP>>)
        THEN LET q == QuotedValue(Strip(Drop(line, 6)))
             IN  [s1 EXCEPT !.field = "msgid",
                      !.cur = IF q.ok
                              THEN [cur EXCEPT !.msgid = q.v,
                                      !.is_header = IF q.v = <<>> /\ st.entries = <<>>
                                                    THEN TRUE ELSE @]
                              ELSE cur]
        ELSE IF StartsWith(line, Str_msgid \o Str_plural \o <<SP>>)
        THEN LET q == QuotedValue(Strip(Drop(line, 13)))
             IN  [s1 EXCEPT !.field = "msgid_plural",
                      !.cur = IF q.ok THEN [cur EXCEPT !.msgid_plural = q.v] ELSE cur]
        ELSE IF StartsWith(line, Str_msgstr \o <<SP>>)
        THEN LET q == QuotedValue(Strip(Drop(line, 7)))
             IN  [s1 EXCEPT !.field = "msgstr",
                      !.cur = IF q.ok THEN [cur EXCEPT !.msgstr = q.v] ELSE cur]
        ELSE IF MatchPlural(line).ok
        THEN LET m == MatchPlural(line)
             IN  [s1 EXCEPT !.field = "msgstr_plural", !.idx = m.idx,
                      !.cur = [cur EXCEPT !.msgstr_plural =
                                 [PadTo(@, m.idx) EXCEPT ![m.idx + 1] =
                                      unescape_po_string(m.v)]]]
        ELSE IF StartsWith(line, <<DQ>>) /\ EndsWith(line, <<DQ>>)
        THEN LET value == unescape_po_string(SubSeq(line, 2, Len(line) - 1))
             IN  [s1 EXCEPT !.cur =
                      CASE st.field = "msgid" -> [cur EXCEPT !.msgid = @ \o value]
                        [] st.field = "msgid_plural" ->
                              [cur EXCEPT !.msgid_plural = @ \o value]
                        [] st.field = "msgstr" -> [cur EXCEPT !.msgstr = @ \o value]
                        [] st.field = "msgstr_plural" ->
                              [cur EXCEPT !.msgstr_plural[st.idx + 1] = @ \o value]
                        [] OTHER -> cur]
        ELSE s1

RECURSIVE ParseLines(_, _)
ParseLines(st, lines) ==
    IF lines = <<>> THEN st ELSE ParseLines(ParseLine(st, Head(lines)), Tail(lines))

\* parse_po_file: the entries of a file given as its lines
parse_po_file(lines) == Emit(ParseLines(ParseStart, lines))

(***************************************************************************)
(* Filtering                                                               *)
(***************************************************************************)
\* has_validation_issues (v2)
has_validation_issues(e) ==
    IF e.msgstr = <<>> THEN FALSE
    ELSE LET src == NewlineEncode(e.msgid)
             trans == NewlineEncode(e.msgstr)
         IN  PlaceholderValidate(src, trans) # <<>> \/ ValidateWarnings(src, trans) # <<>>

\* filter_entries without the skip of verified entries
Keeps_WithoutVerifiedSkip(t, e, mode) ==
    IF e.is_header \/ e.msgid = <<>> THEN FALSE
    ELSE IF mode = "empty" /\ is_empty(e) THEN TRUE
    ELSE IF mode = "fuzzy" /\ is_fuzzy(e) THEN TRUE
    ELSE IF mode = "all" THEN TRUE
    ELSE IF t = "v2" /\ mode = "errors" /\ is_fuzzy(e) /\ has_validation_issues(e) THEN TRUE
    ELSE FALSE

\* the test filter_entries applies to one entry; translate.py has no 'errors' branch
Keeps(t, e, mode) ==
    IF e.is_header \/ e.msgid = <<>> THEN FALSE
    ELSE IF is_verified(e) THEN FALSE
    ELSE IF mode = "empty" /\ is_empty(e) THEN TRUE
    ELSE IF mode = "fuzzy" /\ is_fuzzy(e) THEN TRUE
    ELSE IF mode = "all" THEN TRUE
    ELSE IF t = "v2" /\ mode = "errors" /\ is_fuzzy(e) /\ has_validation_issues(e) THEN TRUE
    ELSE FALSE

filter_entries(t, ents, mode) == SelectSeq(ents, LAMBDA e : Keeps(t, e, mode))

(***************************************************************************)
(* Export                                                                  *)
(***************************************************************************)
Str_gestures == <<"K", "O", "A", "s", "s", "i", "s", "t", "a", "n", "t", ":">>
Str_actions == <<"p", "r", "o", "m", "p", "t", "s", "/", "a", "c", "t", "i", "o", "n", "s", ".", "l", "u", "a">>
Str_system_prompts == <<"p", "r", "o", "m", "p", "t", "s", "/", "s", "y", "s", "t", "e", "m", "_", "p", "r", "o", "m", "p", "t", "s", ".", "l", "u", "a">>
Str_behavior == <<"b", "e", "h", "a", "v", "i", "o", "r">>
Str_settings_schema == <<"s", "e", "t", "t", "i", "n", "g", "s", "_", "s", "c", "h", "e", "m", "a">>
Str_settings_manager == <<"s", "e", "t", "t", "i", "n", "g", "s", "_", "m", "a", "n", "a", "g", "e", "r">>
Str_chat_history == <<"c", "h", "a", "t", "_", "h", "i", "s", "t", "o", "r", "y">>
Str_ui == <<"k", "o", "a", "s", "s", "i", "s", "t", "a", "n", "t", "_", "u", "i", "/">>
Str_domain == <<"d", "o", "m", "a", "i", "n">>
Str_error == <<"e", "r", "r", "o", "r">>
Str_fail == <<"f", "a", "i", "l">>

\* POEntry.get_group (v1)
get_group(e) ==
    IF StartsWith(e.msgid, Str_gestures) THEN "Gestures"
    ELSE IF e.references = <<>> THEN "General"
    ELSE LET ref == Lower(e.references[1])
         IN  IF Contains(ref, Str_actions) THEN "Actions"
             ELSE IF Contains(ref, Str_system_prompts) \/ Contains(ref, Str_behavior)
                  THEN "Behaviors"
             ELSE IF Contains(ref, Str_settings_schema) \/ Contains(ref, Str_settings_manager)
                  THEN "Settings"
             ELSE IF Contains(ref, Str_chat_history) THEN "Chat History"
             ELSE IF Contains(ref, Str_ui) THEN "UI Managers"
             ELSE IF Contains(ref, Str_domain) THEN "Domains"
             ELSE IF Contains(Lower(e.msgid), Str_error) \/ Contains(Lower(e.msgid), Str_fail)
                  THEN "Error Messages"
             ELSE "General"

group_order == <<"Settings", "Actions", "Behaviors", "Domains", "Gestures",
                 "Chat History", "UI Managers", "Error Messages", "General">>

\* the entries of export_grouped_format in the order they are numbered
GroupedOrder(ents) ==
    Concat([g \in 1..Len(group_order) |->
              SelectSeq(ents, LAMBDA e : get_group(e) = group_order[g])])

ExportOrder_Unordered(t, ents) == ents

\* the export order of the tool: filtered order (v2), groups first (v1)
ExportOrder(t, ents) == IF t = "v1" THEN GroupedOrder(ents) ELSE ents

\* the text an entry is shown as: '\n' -> '[NL]' (v2), '\n' -> backslash n (v1)
DisplayText(t, msgid) ==
    IF t = "v1" THEN Replace(msgid, <<NL>>, <<BS, "n">>) ELSE NewlineEncode(msgid)

\* the header lines of an export: comment lines (their wording shortened: the
\* parsers only look at the leading #), then an empty line
ExportHeader(count) ==
    << <<"#", SP>> \o IntToStr(count), <<"#", SP, "K", "E", "E", "P">>, <<>> >>

\* export_v2_format / export_grouped_format: the mapping (number i -> mapping[i])
ExportMapping(t, ents) ==
    LET ord == ExportOrder(t, ents) IN [i \in 1..Len(ord) |-> ord[i].msgid]

\* the lines of the export file; translate.py puts an empty line and "## group"
\* (the name shortened to G) before each group
ExportLines(t, ents) ==
    LET ord == ExportOrder(t, ents)
        num(i) == IntToStr(i) \o <<".", SP>> \o DisplayText(t, ord[i].msgid)
        heading(i) ==
            IF t = "v1" /\ (i = 1 \/ get_group(ord[i - 1]) # get_group(ord[i]))
            THEN << <<>>, <<"#", "#", SP, "G">> >> ELSE <<>>
    IN  ExportHeader(Len(ord)) \o Concat([i \in 1..Len(ord) |-> heading(i) \o <<num(i)>>])

(***************************************************************************)
(* Import                                                                  *)
(***************************************************************************)
\* a Python dict as the sequence of its <<key, value>> items in insertion order
DictHas(d, k) == \E i \in 1..Len(d) : d[i][1] = k

DictGet(d, k) == d[CHOOSE i \in 1..Len(d) : d[i][1] = k][2]

\* d[k] = v
DictSet(d, k, v) ==
    IF DictHas(d, k)
    THEN [i \in 1..Len(d) |-> IF d[i][1] = k THEN <<k, v>> ELSE d[i]]
    ELSE Append(d, <<k, v>>)

DictKeys(d) == {d[i][1] : i \in 1..Len(d)}

\* re.match(r'^(\d+)\.\s*(.*)$', line): the number and group 2
MatchNumbered(line) ==
    LET k == DigitPrefix(line)
    IN  IF k >= 1 /\ Len(line) > k /\ line[k + 1] = "."
        THEN [ok |-> TRUE, num |-> ParseInt(SubSeq(line, 1, k)),
              text |-> LStrip(Drop(line, k + 1))]
        ELSE [ok |-> FALSE, num |-> 0, text |-> <<>>]

RECURSIVE ParseV2Lines(_, _)
ParseV2Lines(d, lines) ==
    IF lines = <<>> THEN d
    ELSE LET line == Head(lines)
             m == MatchNumbered(line)
         IN  IF StartsWith(line, <<"#">>) \/ Strip(line) = <<>>
             THEN ParseV2Lines(d, Tail(lines))
             ELSE IF m.ok
             THEN ParseV2Lines(DictSet(d, m.num, Strip(m.text)), Tail(lines))
             ELSE ParseV2Lines(d, Tail(lines))

\* parse_v2_numbered_format (v2), on the lines of the text
parse_v2_numbered_format(lines) == ParseV2Lines(<<>>, lines)

\* "save previous entry" of parse_numbered_format
Flush(st) ==
    IF st.has /\ st.cur # <<>>
    THEN DictSet(st.d, st.num, Join(st.cur, <<NL>>)) ELSE st.d

RECURSIVE ParseV1Lines(_, _)
ParseV1Lines(st, lines) ==
    IF lines = <<>> THEN Flush(st)
    ELSE LET line == Head(lines)
             m == MatchNumbered(line)
             text_part == Replace(m.text, <<BS, "n">>, <<NL>>)
         IN  IF StartsWith(line, <<"#">>) \/ Strip(line) = <<>>
             THEN ParseV1Lines([d |-> Flush(st), has |-> FALSE, num |-> 0, cur |-> <<>>],
                               Tail(lines))
             ELSE IF m.ok
             THEN ParseV1Lines([d |-> Flush(st), has |-> TRUE, num |-> m.num,
                                cur |-> IF text_part # <<>> THEN <<text_part>> ELSE <<>>],
                               Tail(lines))
             ELSE IF st.has
             THEN ParseV1Lines([st EXCEPT !.cur = Append(@, line)], Tail(lines))
             ELSE ParseV1Lines(st, Tail(lines))

\* parse_numbered_format (v1), on the lines of the text
parse_numbered_format(lines) ==
    ParseV1Lines([d |-> <<>>, has |-> FALSE, num |-> 0, cur |-> <<>>], lines)

\* msgid_to_entry = {e.msgid: e for e in entries if e.msgid}: a later entry replaces
\* an earlier one with the same msgid
HasEntry(ents, msgid) == msgid # <<>> /\ \E i \in 1..Len(ents) : ents[i].msgid = msgid

EntryOf(ents, msgid) ==
    ents[CHOOSE i \in 1..Len(ents) :
            ents[i].msgid = msgid /\ \A j \in (i + 1)..Len(ents) : ents[j].msgid # msgid]

EmptyImport == [translations |-> <<>>, errors |-> <<>>, warnings |-> <<>>, skipped |-> 0]

\* import_v2_format without the skip of verified entries
ImportStepV2_WithoutSkip(acc, ents, mapping, num, raw, fix) ==
    IF num \notin DOMAIN mapping
    THEN [acc EXCEPT !.errors = Append(@, <<num, <<"unknown_number">> >>)]
    ELSE
    LET msgid == mapping[num]
        source_encoded == NewlineEncode(msgid)
        trans_text == IF fix THEN auto_fix(source_encoded, raw).fixed ELSE raw
        verrs == PlaceholderValidate(source_encoded, trans_text)
        vwarns == ValidateWarnings(source_encoded, trans_text)
    IN  IF ~HasEntry(ents, msgid)
        THEN [acc EXCEPT !.errors = Append(@, <<num, <<"not_found">> >>)]
        ELSE IF verrs # <<>>
        THEN [acc EXCEPT !.errors = @ \o [i \in 1..Len(verrs) |-> <<num, verrs[i]>>]]
        ELSE [acc EXCEPT
                !.warnings = @ \o [i \in 1..Len(vwarns) |-> <<num, vwarns[i]>>],
                !.translations = DictSet(@, msgid, NewlineDecode(trans_text))]

\* the body of the loop of import_v2_format for one (num, trans_text) item
ImportStepV2(acc, ents, mapping, num, raw, fix) ==
    IF num \notin DOMAIN mapping
    THEN [acc EXCEPT !.errors = Append(@, <<num, <<"unknown_number">> >>)]
    ELSE
    LET msgid == mapping[num]
        source_encoded == NewlineEncode(msgid)
        trans_text == IF fix THEN auto_fix(source_encoded, raw).fixed ELSE raw
        verrs == PlaceholderValidate(source_encoded, trans_text)
        vwarns == ValidateWarnings(source_encoded, trans_text)
    IN  IF ~HasEntry(ents, msgid)
        THEN [acc EXCEPT !.errors = Append(@, <<num, <<"not_found">> >>)]
        ELSE IF is_verified(EntryOf(ents, msgid))
        THEN [acc EXCEPT !.skipped = @ + 1]
        ELSE IF verrs # <<>>
        THEN [acc EXCEPT !.errors = @ \o [i \in 1..Len(verrs) |-> <<num, verrs[i]>>]]
        ELSE [acc EXCEPT
                !.warnings = @ \o [i \in 1..Len(vwarns) |-> <<num, vwarns[i]>>],
                !.translations = DictSet(@, msgid, NewlineDecode(trans_text))]

\* import_translations that passes over an unknown number without an error
ImportStepV1_UnknownIgnored(acc, ents, mapping, num, msgstr) ==
    IF num \notin DOMAIN mapping
    THEN acc
    ELSE
    LET msgid == mapping[num]
        temp_result == validate_entry(msgid, msgstr, FALSE)
    IN  IF ~HasEntry(ents, msgid)
        THEN [acc EXCEPT !.errors = Append(@, <<num, <<"not_found">> >>)]
        ELSE IF is_verified(EntryOf(ents, msgid))
        THEN [acc EXCEPT !.skipped = @ + 1]
        ELSE IF temp_result.errors # <<>>
        THEN [acc EXCEPT !.errors =
                  @ \o [i \in 1..Len(temp_result.errors) |-> <<num, temp_result.errors[i]>>]]
        ELSE [acc EXCEPT !.translations = DictSet(@, msgid, msgstr)]

\* the body of the loop of import_translations (v1) for one (num, msgstr) item
ImportStepV1(acc, ents, mapping, num, msgstr) ==
    IF num \notin DOMAIN mapping
    THEN [acc EXCEPT !.errors = Append(@, <<num, <<"unknown_number">> >>)]
    ELSE
    LET msgid == mapping[num]
        temp_result == validate_entry(msgid, msgstr, FALSE)
    IN  IF ~HasEntry(ents, msgid)
        THEN [acc EXCEPT !.errors = Append(@, <<num, <<"not_found">> >>)]
        ELSE IF is_verified(EntryOf(ents, msgid))
        THEN [acc EXCEPT !.skipped = @ + 1]
        ELSE IF temp_result.errors # <<>>
        THEN [acc EXCEPT !.errors =
                  @ \o [i \in 1..Len(temp_result.errors) |-> <<num, temp_result.errors[i]>>]]
        ELSE [acc EXCEPT !.translations = DictSet(@, msgid, msgstr)]

\* an import loop whose first rejection makes it reject the lines after it
ImportStep_RejectsAfterError(t, acc, ents, mapping, num, text, fix) ==
    IF acc.errors # <<>>
    THEN [acc EXCEPT !.errors = Append(@, <<num, <<"not_found">> >>)]
    ELSE IF t = "v1" THEN ImportStepV1(acc, ents, mapping, num, text)
    ELSE ImportStepV2(acc, ents, mapping, num, text, fix)

ImportStep(t, acc, ents, mapping, num, text, fix) ==
    IF t = "v1" THEN ImportStepV1(acc, ents, mapping, num, text)
    ELSE ImportStepV2(acc, ents, mapping, num, text, fix)

RECURSIVE ImportLoop(_, _, _, _, _, _)
ImportLoop(t, acc, ents, mapping, items, fix) ==
    IF items = <<>> THEN acc
    ELSE ImportLoop(t, ImportStep(t, acc, ents, mapping, items[1][1], items[1][2], fix),
                    ents, mapping, Tail(items), fix)

\* the numbered items of an import file, as the tool parses them
ParseImport(t, lines) ==
    IF t = "v1" THEN parse_numbered_format(lines) ELSE parse_v2_numbered_format(lines)

\* import_v2_format / import_translations with the mapping file present
ImportFormat(t, lines, mapping, ents, fix) ==
    ImportLoop(t, EmptyImport, ents, mapping, ParseImport(t, lines), fix)

\* "Apply translations": entry.msgstr = translations[entry.msgid]
ApplyTranslations(ents, translations) ==
    [i \in 1..Len(ents) |->
        IF DictHas(translations, ents[i].msgid)
        THEN [ents[i] EXCEPT !.msgstr = DictGet(translations, ents[i].msgid)]
        ELSE ents[i]]

(***************************************************************************)
(* The commands of one language: export, import, run                       *)
(***************************************************************************)
MaxEntries == 2
MaxLines == 1
MaxNum == 2

Modes == {"empty", "fuzzy", "all", "errors"}

\* the modes cmd_export of each tool can select
ModesOf(t) == IF t = "v1" THEN {"empty", "fuzzy", "all"} ELSE Modes

Txt_ph == <<"%", "1">>
Txt_brand == <<"K", "O", "R", "e", "a", "d", "e", "r">>
Txt_plain == <<"a">>
Txt_wrong == <<"%", "s">>

\* the source strings of the catalogs
Keys == {Txt_ph, Txt_brand}

\* the texts a translator or a provider writes after a number
Texts == {Txt_ph, Txt_brand, Txt_wrong}

FuzzyLine == <<"#", ",", SP>> \o Str_fuzzy

\* an entry as parse_po_file returns it
MkEntry(msgid, msgstr, fuzzy) ==
    [NewEntry EXCEPT !.msgid = msgid, !.msgstr = msgstr,
                     !.comments = IF fuzzy THEN <<FuzzyLine>> ELSE <<>>,
                     !.flags = IF fuzzy THEN <<Str_fuzzy>> ELSE <<>>]

Str_cformat == <<"c", "-", "f", "o", "r", "m", "a", "t">>

\* a fuzzy entry whose flag line carries a second flag: "#, fuzzy, c-format"
TwoFlagEntry ==
    [NewEntry EXCEPT !.msgid = Txt_ph, !.msgstr = Txt_plain,
                     !.comments = << FuzzyLine \o <<",", SP>> \o Str_cformat >>,
                     !.flags = <<Str_fuzzy, Str_cformat>>]

HeaderEntry == [NewEntry EXCEPT !.is_header = TRUE, !.msgstr = <<"C", NL>>]

\* empty, fuzzy and verified entries
SampleEntries ==
    {MkEntry(k, <<>>, FALSE) : k \in Keys}
    \cup {MkEntry(k, Txt_plain, TRUE) : k \in Keys}
    \cup {MkEntry(k, k \o Txt_plain, FALSE) : k \in Keys}
    \cup {TwoFlagEntry}

SeqsUpTo(S, n) == UNION {[1..k -> S] : k \in 0..n}

\* the catalogs at the start: a header, then up to MaxEntries entries
InitCatalogs == {<<HeaderEntry>> \o c : c \in SeqsUpTo(SampleEntries, MaxEntries) \ {<<>>}}

NumberedLine(n, text) == IntToStr(n) \o <<".", SP>> \o text

\* the import files a translator hands back
ImportFiles ==
    SeqsUpTo({NumberedLine(n, x) : n \in 1..MaxNum, x \in Texts}, MaxLines)

\* a catalog as gettext tools lay it out, the translation of its last entry in
\* block form: an empty entry KOReader and a verified entry %1
WrappedCatalog ==
    write_po_file("v2", <<HeaderEntry, MkEntry(Txt_brand, <<>>, FALSE)>>, {}, {})
    \o << <<>>,
          Str_msgid \o <<SP>> \o Quoted(Txt_ph),
          Str_msgstr \o <<SP>> \o Quoted(<<>>),
          Quoted(Txt_ph \o Txt_plain) >>

\* what a command left behind: its exit status, the keys of the translations it
\* merged and whether it merged them as verified
Result(rc, merged, verified) == [rc |-> rc, merged |-> merged, verified |-> verified]

Init ==
    /\ pc = "init"
    /\ tool = "none"
    /\ poFile \in {write_po_file("v2", c, {}, {}) : c \in InitCatalogs}
                    \cup {WrappedCatalog}
    /\ entries = <<>>
    /\ mappingFile = Absent
    /\ importFile = Absent
    /\ result = Result(0, {}, FALSE)
    /\ source = <<>>
    /\ translation = <<>>

\* cmd_export of either tool, on the catalog ents that main parsed from the file
CmdExport(t, ents, mode) ==
    LET to_export == filter_entries(t, ents, mode)
    IN  /\ pc' = "exported"
        /\ tool' = t
        /\ result' = Result(0, {}, FALSE)
        /\ IF to_export = <<>>
           THEN UNCHANGED <<mappingFile, importFile>>
           ELSE /\ importFile' = File(ExportLines(t, to_export))
                /\ mappingFile' = File(ExportMapping(t, to_export))
        /\ UNCHANGED <<poFile, entries, source, translation>>

\* the merge at the end of cmd_import and of the run commands: the lines written
MergeAndWrite(t, ents, translations, verified) ==
    write_po_file(t, ApplyTranslations(ents, translations),
                  IF verified THEN DictKeys(translations) ELSE {},
                  IF verified THEN {} ELSE DictKeys(translations))

MappingAfterImport_AlwaysKept(keep) == mappingFile

\* the clean-up at the end of cmd_import: the mapping file is unlinked, unless
\* --keep-mapping was given (translate_v2.py)
MappingAfterImport(keep) == IF keep THEN mappingFile ELSE Absent

\* cmd_import of either tool, given what the import function returned (got, when
\* both files exist); proceed is the answer to "Proceed?", verified and keep are
\* the options --verified and --keep-mapping (the latter of translate_v2.py only)
CmdImport(t, ents, file, got) ==
    /\ pc' = "imported"
    /\ tool' = t
    /\ IF ~file.exists \/ ~mappingFile.exists \/ got.translations = <<>>
       THEN /\ result' = Result(1, {}, FALSE)
            /\ UNCHANGED <<poFile, mappingFile>>
       ELSE \E proceed \in BOOLEAN :
              IF ~proceed
              THEN /\ result' = Result(0, {}, FALSE)
                   /\ UNCHANGED <<poFile, mappingFile>>
              ELSE \E verified \in BOOLEAN, keep \in (IF t = "v2" THEN BOOLEAN ELSE {FALSE}) :
                     /\ poFile' = MergeAndWrite(t, ents, got.translations, verified)
                     /\ mappingFile' = MappingAfterImport(keep)
                     /\ result' = [rc |-> 0, merged |-> DictKeys(got.translations),
                                   verified |-> verified, keep |-> keep]
    /\ UNCHANGED <<importFile, entries, source, translation>>

\* the file cmd_import reads: exports/LANG.txt as it is, or a file of the translator
GivenFiles == {File(f) : f \in ImportFiles} \cup {importFile}

Next ==
    LET ents == parse_po_file(poFile)
    IN  \/ \E t \in {"v1", "v2"}, mode \in Modes :
              mode \in ModesOf(t) /\ CmdExport(t, ents, mode)
        \/ \E file \in GivenFiles :
              CmdImport("v1", ents, file,
                        ImportFormat("v1", file.content, mappingFile.content, ents, FALSE))
        \/ \E file \in GivenFiles, fix \in BOOLEAN :
              CmdImport("v2", ents, file,
                        ImportFormat("v2", file.content, mappingFile.content, ents, fix))

Spec == Init /\ [][Next]_vars

(***************************************************************************)
(* The run commands of translate_v2.py for one language                    *)
(***************************************************************************)
\* the answers of the provider for strings 1..n: translate_strings returns a dict
\* whose numbers are among those asked for (_parse_response), here in the order
\* of the numbers
Responses(n) ==
    {r \in SeqsUpTo((1..n) \X Texts, n) :
        \A i, j \in 1..Len(r) : i < j => r[i][1] < r[j][1]}

RECURSIVE RunLoop(_, _, _, _)
\* the loop over results.items() of the run commands: cmd_run validates the text
\* after auto_fix (validate), cmd_all_run and cmd_multi_run do not
RunLoop(acc, to_translate, results, validate) ==
    IF results = <<>> THEN acc
    ELSE LET num == results[1][1]
             msgid == to_translate[num].msgid
             source_encoded == NewlineEncode(msgid)
             trans_text == auto_fix(source_encoded, results[1][2]).fixed
             rejected == validate /\ PlaceholderValidate(source_encoded, trans_text) # <<>>
         IN  RunLoop(IF rejected THEN acc
                     ELSE DictSet(acc, msgid, NewlineDecode(trans_text)),
                     to_translate, Tail(results), validate)

\* cmd_run, and the body of the loop over languages of cmd_all_run and
\* cmd_multi_run, after the checks of the provider and the key.  proceed is the
\* answer to "Proceed?"; failed: translate_strings raised after its retries
\* (cmd_run ends with the exception, the other two count the language as failed);
\* results is what translate_strings returned
RunCommand(cmd, ents, mode, validate) ==
    LET to_translate == filter_entries("v2", ents, mode)
    IN  /\ pc' = cmd
        /\ tool' = "v2"
        /\ IF to_translate = <<>>
           THEN /\ result' = Result(0, {}, FALSE)
                /\ UNCHANGED poFile
           ELSE \E proceed \in BOOLEAN :
                  IF ~proceed
                  THEN /\ result' = Result(0, {}, FALSE)
                       /\ UNCHANGED poFile
                  ELSE \E failed \in BOOLEAN :
                         IF failed
                         THEN /\ result' = Result(1, {}, FALSE)
                              /\ UNCHANGED poFile
                         ELSE \E results \in Responses(Len(to_translate)) :
                                LET translations == RunLoop(<<>>, to_translate, results, validate)
                                IN  IF cmd = "run" /\ translations = <<>>
                                    THEN /\ result' = Result(1, {}, FALSE)
                                         /\ UNCHANGED poFile
                                    ELSE /\ poFile' = MergeAndWrite("v2", ents, translations, FALSE)
                                         /\ result' = Result(0, DictKeys(translations), FALSE)
        /\ UNCHANGED <<mappingFile, importFile, entries, source, translation>>

CmdRun(ents, mode) == RunCommand("run", ents, mode, TRUE)

CmdAllRun(ents, mode) == RunCommand("all_run", ents, mode, FALSE)

CmdMultiRun(ents, mode) == RunCommand("multi_run", ents, mode, FALSE)

NextRun ==
    LET ents == parse_po_file(poFile)
    IN  \/ \E mode \in Modes : CmdRun(ents, mode)
        \/ \E mode \in Modes : CmdAllRun(ents, mode)
        \/ \E mode \in Modes : CmdMultiRun(ents, mode)

SpecRun == Init /\ [][NextRun]_vars

(***************************************************************************)
(* Claims on the commands                                                  *)
(***************************************************************************)
Catalog == parse_po_file(poFile)

\* C1: an entry that is verified when the catalog is loaded has the same
\* translation text in the catalog after any command (export, import with any
\* import file, either tool, any option), also when several entries share a key.
C1_VerifiedNeverOverwritten ==
    [][\A i \in 1..Len(parse_po_file(poFile)) :
          is_verified(parse_po_file(poFile)[i])
          => /\ i <= Len(parse_po_file(poFile'))
             /\ parse_po_file(poFile')[i].msgstr = parse_po_file(poFile)[i].msgstr]_vars

\* C2: after a merge that is not marked verified, every entry whose key was merged
\* is fuzzy when the written catalog is parsed again.
C2_MergedEntriesAreFuzzy ==
    (result.merged # {} /\ ~result.verified)
    => \A i \in 1..Len(Catalog) :
           Catalog[i].msgid \in result.merged => is_fuzzy(Catalog[i])

\* C3: after any command that merged translations, no merged entry holds a
\* translation that fails validation against its source (placeholder count,
\* newline marker count, wrong placeholder format, missing brand).
C3_NoInvalidTextWritten ==
    \A i \in 1..Len(Catalog) :
        Catalog[i].msgid \in result.merged
        => PlaceholderValidate(NewlineEncode(Catalog[i].msgid),
                               NewlineEncode(Catalog[i].msgstr)) = <<>>

FlagSet(e) == {e.flags[i] : i \in 1..Len(e.flags)}

\* the flag lines among the comment lines of an entry
FlagLines(e) == SelectSeq(e.comments, LAMBDA c : StartsWith(c, <<"#", ",">>))

WithoutFuzzy(flags) == SelectSeq(flags, LAMBDA fl : fl # Str_fuzzy)

\* C11: after an import with --verified that merged translations, every entry
\* whose key was merged has no fuzzy flag in the written catalog: its flags are
\* its former flags without 'fuzzy', in their order, and a flag line that held
\* only 'fuzzy' is no longer there.
C11_VerifiedImportClearsFuzzy ==
    [][(pc' = "imported" /\ result'.verified /\ result'.merged # {})
       => LET old == parse_po_file(poFile)
              new == parse_po_file(poFile')
          IN  /\ Len(new) = Len(old)
              /\ \A i \in 1..Len(old) :
                    old[i].msgid \in result'.merged
                    => /\ ~is_fuzzy(new[i])
                       /\ new[i].flags = WithoutFuzzy(old[i].flags)
                       /\ Len(FlagLines(new[i]))
                            = Len(SelectSeq(FlagLines(old[i]),
                                  LAMBDA c : WithoutFuzzy(FlagsOfLine(Drop(c, 2))) # <<>>))
                       /\ \A k \in 1..Len(FlagLines(new[i])) :
                             FlagsOfLine(Drop(FlagLines(new[i])[k], 2)) # <<>>]_vars

\* a verified import merged the key of the entry flagged "fuzzy, c-format": the
\* entry is left with the flag c-format alone
C11_Witness ==
    /\ pc = "imported"
    /\ result.verified
    /\ \E i \in 1..Len(Catalog) :
          /\ Catalog[i].msgid \in result.merged
          /\ Catalog[i].flags = <<Str_cformat>>

\* C12: the fuzzy flag of an entry changes only in a write that follows a merge
\* holding the entry's key: entries whose key was not merged keep their flag set,
\* and a command that merged nothing leaves the catalog file as it was.
C12_OnlyMergesTouchTheCatalog ==
    [][/\ result'.merged = {} => poFile' = poFile
       /\ LET old == parse_po_file(poFile)
              new == parse_po_file(poFile')
          IN  /\ Len(new) = Len(old)
              /\ \A i \in 1..Len(old) :
                    old[i].msgid \notin result'.merged
                    => FlagSet(new[i]) = FlagSet(old[i])]_vars

\* C16: an export that has something to export leaves the mapping file in
\* place (an export with nothing to export writes no file).  An import that
\* applied at least one translation and wrote the catalog removes the mapping
\* file unless --keep-mapping was given, and keeps it as it was if it was given;
\* an import that applied nothing leaves the mapping file and the catalog as
\* they were; an import that finds no mapping file fails and leaves the catalog
\* file unchanged.
C16_MappingFileLifetime ==
    [][/\ pc' = "exported"
          => \/ mappingFile'.exists
             \/ /\ mappingFile' = mappingFile
                /\ importFile' = importFile
                /\ \E mode \in ModesOf(tool') :
                      filter_entries(tool', parse_po_file(poFile), mode) = <<>>
       /\ pc' = "imported"
          => /\ result'.merged = {} => mappingFile' = mappingFile /\ poFile' = poFile
             /\ result'.merged # {}
                => /\ mappingFile.exists
                   /\ result'.rc = 0
                   /\ poFile' = write_po_file(tool',
                                   parse_po_file(poFile'),
                                   {}, {})
                   /\ mappingFile' = IF result'.keep THEN mappingFile ELSE Absent
                   /\ tool' = "v1" => ~result'.keep
             /\ ~mappingFile.exists
                => result'.rc = 1 /\ poFile' = poFile /\ ~mappingFile'.exists]_vars

\* a second import after one that removed the mapping file
C16_Witness ==
    /\ pc = "imported"
    /\ result.rc = 1
    /\ importFile.exists
    /\ ~mappingFile.exists

(***************************************************************************)
(* filter_entries on catalogs in memory                                    *)
(***************************************************************************)
FilterMaxEntries == 2

Txt_provider == <<"G", "P", "T">>

\* entries of every kind the flags distinguish: empty, empty and fuzzy, fuzzy with
\* a translation that passes, that fails validation, that only draws a warning,
\* and verified
FilterEntries ==
    {MkEntry(k, <<>>, f) : k \in Keys, f \in BOOLEAN}
    \cup {MkEntry(k, k, f) : k \in Keys, f \in BOOLEAN}
    \cup {MkEntry(k, Txt_plain, TRUE) : k \in Keys \cup {Txt_provider}}
    \cup {MkEntry(k, Txt_plain, FALSE) : k \in Keys}
    \cup {MkEntry(Txt_ph, Txt_wrong, f) : f \in BOOLEAN}

FilterCatalogs ==
    {<<HeaderEntry>> \o c : c \in SeqsUpTo(FilterEntries, FilterMaxEntries)}

InitFilter ==
    /\ pc = "init"
    /\ tool = "none"
    /\ entries \in FilterCatalogs
    /\ poFile = <<>>
    /\ mappingFile = Absent
    /\ importFile = Absent
    /\ result = [mode |-> "none", returned |-> <<>>]
    /\ source = <<>>
    /\ translation = <<>>

\* a call of filter_entries of tool t on the catalog
Filter(t, mode) ==
    /\ pc = "init"
    /\ pc' = "filtered"
    /\ tool' = t
    /\ result' = [mode |-> mode, returned |-> filter_entries(t, entries, mode)]
    /\ UNCHANGED <<entries, poFile, mappingFile, importFile, source, translation>>

\* the messages validate_entry adds for entry i, each with the entry it names
\* (the line number of the entry in the file)
Tagged(i, messages) == [k \in 1..Len(messages) |-> [origin |-> i, issue |-> messages[k]]]

\* validate_language of translate.py: [errors, warnings, passed]
validate_language(ents) ==
    LET checked(i) == ~ents[i].is_header /\ ents[i].msgstr # <<>>
        one(i) == validate_entry(ents[i].msgid, ents[i].msgstr, is_fuzzy(ents[i]))
        errors == Concat([i \in 1..Len(ents) |->
                     IF checked(i) THEN Tagged(i, one(i).errors) ELSE <<>>])
        warnings == Concat([i \in 1..Len(ents) |->
                     IF checked(i) THEN Tagged(i, one(i).warnings) ELSE <<>>])
    IN  [errors |-> errors, warnings |-> warnings, passed |-> Len(errors) = 0]

\* validate_language(entries) of translate.py on the catalog
ValidateLanguage ==
    /\ pc = "init"
    /\ pc' = "language_validated"
    /\ tool' = "v1"
    /\ result' = validate_language(entries)
    /\ UNCHANGED <<entries, poFile, mappingFile, importFile, source, translation>>

NextFilter ==
    \/ \E t \in {"v1", "v2"}, mode \in Modes : mode \in ModesOf(t) /\ Filter(t, mode)
    \/ ValidateLanguage

SpecFilter == InitFilter /\ [][NextFilter]_vars

\* the entries the claim says a mode selects; an entry without a translation has
\* no existing translation that could fail validation
Eligible(e, mode) ==
    /\ ~e.is_header
    /\ e.msgid # <<>>
    /\ ~is_verified(e)
    /\ \/ mode = "empty" /\ is_empty(e)
       \/ mode = "fuzzy" /\ is_fuzzy(e)
       \/ mode = "all"
       \/ /\ mode = "errors"
          /\ is_fuzzy(e)
          /\ e.msgstr # <<>>
          /\ \/ PlaceholderValidate(NewlineEncode(e.msgid), NewlineEncode(e.msgstr)) # <<>>
             \/ ValidateWarnings(NewlineEncode(e.msgid), NewlineEncode(e.msgstr)) # <<>>

\* C4: filter_entries returns, in catalog order, exactly the entries that are not
\* the header, have a non-empty key, are not verified and satisfy the predicate of
\* the mode: the k-th entry returned is the k-th eligible entry of the catalog,
\* and no verified entry is returned for any mode.
C4_FilterReturnsEligibleInOrder ==
    pc = "filtered"
    => LET r == result.returned
           I == {i \in 1..Len(entries) : Eligible(entries[i], result.mode)}
       IN  /\ Len(r) = Cardinality(I)
           /\ \A i \in I : r[Cardinality({j \in I : j < i}) + 1] = entries[i]
           /\ \A k \in 1..Len(r) : ~is_verified(r[k])

\* a catalog with a verified entry and a fuzzy one whose translation fails
\* validation, filtered in mode errors: only the second is returned
C4_Witness ==
    /\ pc = "filtered"
    /\ result.mode = "errors"
    /\ Len(result.returned) = 1
    /\ Len(entries) = 3
    /\ is_verified(entries[2])
    /\ result.returned[1] = entries[3]

(***************************************************************************)
(* The import functions on a catalog, a mapping and an import file          *)
(***************************************************************************)
ImportMaxEntries == 2
ImportMaxMapping == 2
ImportMaxLines == 2

\* a source naming a brand and a provider: a translation without the provider
\* draws a warning of translate_v2.py, one without the brand an error
Txt_brand_provider == Txt_brand \o <<SP>> \o Txt_provider

ImportKeys == {Txt_ph, Txt_brand_provider}

\* empty and verified entries of each key, and a fuzzy one
ImportEntries ==
    {MkEntry(k, <<>>, FALSE) : k \in ImportKeys}
    \cup {MkEntry(k, k, FALSE) : k \in ImportKeys}
    \cup {MkEntry(Txt_ph, Txt_plain, TRUE)}

ImportCatalogs == SeqsUpTo(ImportEntries, ImportMaxEntries)

\* mappings as cmd_export writes them: numbers 1..n to keys
ImportMappings == SeqsUpTo(ImportKeys, ImportMaxMapping)

\* numbered lines, with numbers beyond every mapping too
GivenLines ==
    {NumberedLine(n, x) : n \in 1..(ImportMaxMapping + 1), x \in Texts \cup {<<>>}}

InitImport ==
    /\ pc = "init"
    /\ tool = "none"
    /\ entries \in ImportCatalogs
    /\ poFile = <<>>
    /\ mappingFile \in {File(m) : m \in ImportMappings}
    /\ importFile \in {File(f) : f \in SeqsUpTo(GivenLines, ImportMaxLines)}
    /\ result = [got |-> EmptyImport, fix |-> FALSE]
    /\ source = <<>>
    /\ translation = <<>>

\* a call of the import function of tool t; fix is the auto_fix parameter of
\* import_v2_format (translate.py has none)
Import(t, fix) ==
    /\ pc = "init"
    /\ pc' = "imported"
    /\ tool' = t
    /\ result' = [got |-> ImportFormat(t, importFile.content, mappingFile.content,
                                       entries, fix),
                  fix |-> fix]
    /\ UNCHANGED <<entries, poFile, mappingFile, importFile, source, translation>>

NextImport ==
    \/ Import("v1", FALSE)
    \/ \E fix \in BOOLEAN : Import("v2", fix)

SpecImport == InitImport /\ [][NextImport]_vars

\* the numbered items the loop of the import function runs over, the mapping, and
\* what the function returned
Items == ParseImport(tool, importFile.content)

Mapping == mappingFile.content

Got == result.got

NumOf(i) == Items[i][1]

\* the number resolves through the mapping to an entry of the catalog
Resolves(i) == NumOf(i) \in DOMAIN Mapping /\ HasEntry(entries, Mapping[NumOf(i)])

KeyOf(i) == Mapping[NumOf(i)]

Target(i) == EntryOf(entries, KeyOf(i))

ErrorsOf(i) == SelectSeq(Got.errors, LAMBDA x : x[1] = NumOf(i))

WarningsOf(i) == SelectSeq(Got.warnings, LAMBDA x : x[1] = NumOf(i))

\* the items that resolve to a verified entry, and to a non-verified one
ToVerified == {i \in 1..Len(Items) : Resolves(i) /\ is_verified(Target(i))}

ToOpen == {i \in 1..Len(Items) : Resolves(i) /\ ~is_verified(Target(i))}

\* the text of item i as it is validated, and the errors validation returns for it
FixedText(i) ==
    IF tool = "v2" /\ result.fix
    THEN auto_fix(NewlineEncode(KeyOf(i)), Items[i][2]).fixed
    ELSE Items[i][2]

ValidationErrors(i) ==
    IF tool = "v2" THEN PlaceholderValidate(NewlineEncode(KeyOf(i)), FixedText(i))
    ELSE validate_entry(KeyOf(i), Items[i][2], FALSE).errors

\* the translation an accepted item puts under its key
FinalText(i) == IF tool = "v2" THEN NewlineDecode(FixedText(i)) ELSE Items[i][2]

\* the import function on item i alone
Alone(i) == ImportLoop(tool, EmptyImport, entries, Mapping, <<Items[i]>>, result.fix)

\* C5: every distinct number of the import file that resolves through the mapping
\* to a verified entry adds exactly 1 to the skipped count, records no error and
\* no warning, and leaves the entry's key out of the returned translations; the
\* skipped count is the number of such numbers.
C5_VerifiedAreSkippedAndCounted ==
    pc = "imported"
    => /\ Got.skipped = Cardinality(ToVerified)
       /\ \A i \in ToVerified :
             /\ ErrorsOf(i) = <<>>
             /\ WarningsOf(i) = <<>>
             /\ ~DictHas(Got.translations, KeyOf(i))

\* a file of two lines: one number is skipped, the other line is accepted
C5_Witness ==
    /\ pc = "imported"
    /\ Got.skipped = 1
    /\ Got.translations # <<>>
    /\ Got.errors = <<>>
    /\ Len(Items) = 2

\* C6: a numbered line that resolves to a non-verified entry is placed into the
\* returned translations if and only if validation of its (optionally auto-fixed)
\* text against the source returns no errors: an accepted line puts its text under
\* its key (the last accepted line of a key wins) and records no error, whatever
\* the warnings; a rejected line records at least one error and no translation;
\* and what a line records is what it records when it is the only line.
C6_AcceptedIffNoValidationErrors ==
    pc = "imported"
    => \A i \in ToOpen :
          /\ ValidationErrors(i) = <<>>
             => /\ ErrorsOf(i) = <<>>
                /\ DictHas(Got.translations, KeyOf(i))
                /\ \E j \in ToOpen :
                      /\ KeyOf(j) = KeyOf(i) /\ ValidationErrors(j) = <<>>
                      /\ j >= i
                      /\ DictGet(Got.translations, KeyOf(i)) = FinalText(j)
          /\ ValidationErrors(i) # <<>>
             => /\ ErrorsOf(i) # <<>>
                /\ WarningsOf(i) = <<>>
                /\ DictHas(Got.translations, KeyOf(i))
                   => \E j \in ToOpen \ {i} :
                         /\ KeyOf(j) = KeyOf(i) /\ ValidationErrors(j) = <<>>
                         /\ DictGet(Got.translations, KeyOf(i)) = FinalText(j)
          /\ ErrorsOf(i) = Alone(i).errors
          /\ WarningsOf(i) = Alone(i).warnings
          /\ (Alone(i).translations # <<>>) <=> (ValidationErrors(i) = <<>>)

\* translate_v2.py, two lines for non-verified entries: one is rejected, the
\* other is accepted although it draws a warning
C6_Witness ==
    /\ pc = "imported"
    /\ tool = "v2"
    /\ Cardinality(ToOpen) = 2
    /\ Got.errors # <<>>
    /\ Got.warnings # <<>>
    /\ Len(Got.translations) = 1

\* the items whose number the mapping does not have
Unknown == {i \in 1..Len(Items) : NumOf(i) \notin DOMAIN Mapping}

\* the items of known numbers, in the order of the file
KnownItems == SelectSeq(Items, LAMBDA x : x[1] \in DOMAIN Mapping)

\* C7: a numbered line whose number is not a key of the mapping records exactly
\* one "unknown number" error and no warning, adds nothing to the translations
\* and does not stop the lines after it: translations, warnings, skipped count and
\* the other errors are those of the file without such lines; and the import
\* function changes no catalog entry.
C7_UnknownNumberIsOneError ==
    /\ [](pc = "imported"
          => /\ \A i \in Unknown :
                   /\ ErrorsOf(i) = << <<NumOf(i), <<"unknown_number">> >> >>
                   /\ WarningsOf(i) = <<>>
             /\ LET rest == ImportLoop(tool, EmptyImport, entries, Mapping,
                                       KnownItems, result.fix)
                IN  /\ Got.translations = rest.translations
                    /\ Got.warnings = rest.warnings
                    /\ Got.skipped = rest.skipped
                    /\ SelectSeq(Got.errors, LAMBDA x : x[2] # <<"unknown_number">>)
                          = rest.errors)
    /\ [][entries' = entries]_vars

\* an unknown number on the first line, an accepted translation on the second
C7_Witness ==
    /\ pc = "imported"
    /\ Len(Items) = 2
    /\ 1 \in Unknown
    /\ Len(Got.errors) = 1
    /\ Len(Got.translations) = 1

(***************************************************************************)
(* write_po_file, then parse_po_file                                       *)
(***************************************************************************)
CodecMaxLen == 2

\* newline, tab, double quote, backslash and the letters n and t
CodecAlphabet == {NL, TAB, DQ, BS, "n", "t"}

CodecStrings == SeqsUpTo(CodecAlphabet, CodecMaxLen)

CodecChars == SeqsUpTo(CodecAlphabet, 1)

\* single-line and multi-line entries, and plural entries with two forms
CodecEntries ==
    {MkEntry(k, x, f) : k \in CodecStrings \ {<<>>}, x \in CodecStrings, f \in BOOLEAN}
    \cup {[NewEntry EXCEPT !.msgid = k, !.msgid_plural = p, !.msgstr_plural = <<x, y>>] :
             k \in CodecChars \ {<<>>}, p \in CodecChars \ {<<>>},
             x \in CodecChars, y \in CodecChars}

InitCodec ==
    /\ pc = "init"
    /\ tool = "none"
    /\ entries \in {<<HeaderEntry, e>> : e \in CodecEntries}
    /\ poFile = <<>>
    /\ mappingFile = Absent
    /\ importFile = Absent
    /\ result = [parsed |-> <<>>]
    /\ source = <<>>
    /\ translation = <<>>

\* write_po_file(entries, po_path) of tool t, with no fuzzy flag to add or remove
WritePo(t) ==
    /\ pc = "init"
    /\ pc' = "written"
    /\ tool' = t
    /\ poFile' = write_po_file(t, entries, {}, {})
    /\ UNCHANGED <<entries, mappingFile, importFile, result, source, translation>>

\* parse_po_file(po_path)
ParsePo ==
    /\ pc = "written"
    /\ pc' = "parsed"
    /\ result' = [parsed |-> parse_po_file(poFile)]
    /\ UNCHANGED <<tool, entries, poFile, mappingFile, importFile, source, translation>>

NextCodec ==
    \/ \E t \in {"v1", "v2"} : WritePo(t)
    \/ ParsePo

SpecCodec == InitCodec /\ [][NextCodec]_vars

\* C8: parsing what write_po_file wrote (no fuzzy flag added or removed) gives the
\* entries written: as many, in the same order, each with the same key,
\* translation, plural translations and flag set.
C8_WriteThenParseRoundTrip ==
    pc = "parsed"
    => /\ Len(result.parsed) = Len(entries)
       /\ \A i \in 1..Len(entries) :
             /\ result.parsed[i].msgid = entries[i].msgid
             /\ result.parsed[i].msgstr = entries[i].msgstr
             /\ result.parsed[i].msgstr_plural = entries[i].msgstr_plural
             /\ FlagSet(result.parsed[i]) = FlagSet(entries[i])

(***************************************************************************)
(* Validation of one source and one translation                             *)
(***************************************************************************)
ValMaxPieces == 3

Txt_ph2 == <<"%", "2">>

SourcePieces == {Txt_ph, Txt_ph2, Txt_plain, Txt_brand}

Txt_wrong_d == <<"%", "d">>

TranslationPieces == SourcePieces \cup {Txt_wrong, Txt_wrong_d}

\* the strings made of up to ValMaxPieces pieces: a token occurs 0 to ValMaxPieces times
PieceStrings(pieces) == {Concat(q) : q \in SeqsUpTo(pieces, ValMaxPieces)}

InitVal ==
    /\ pc = "init"
    /\ tool = "none"
    /\ entries = <<>>
    /\ poFile = <<>>
    /\ mappingFile = Absent
    /\ importFile = Absent
    /\ result = [errors |-> <<>>, warnings |-> <<>>, fuzzy |-> FALSE]
    /\ source \in PieceStrings(SourcePieces) \ {<<>>}
    /\ translation \in PieceStrings(TranslationPieces)

\* PlaceholderValidator.validate and validate_warnings of translate_v2.py on the
\* newline-encoded source and the translation in marker form
ValidateV2 ==
    /\ pc = "init"
    /\ pc' = "validated"
    /\ tool' = "v2"
    /\ result' = [errors |-> PlaceholderValidate(NewlineEncode(source), translation),
                  warnings |-> ValidateWarnings(NewlineEncode(source), translation),
                  fuzzy |-> FALSE]
    /\ UNCHANGED <<entries, poFile, mappingFile, importFile, source, translation>>

\* validate_entry of translate.py on an entry with this key and translation,
\* fuzzy or not, and a fresh ValidationResult
ValidateV1(fuzzy) ==
    /\ pc = "init"
    /\ pc' = "validated"
    /\ tool' = "v1"
    /\ result' = [errors |-> validate_entry(source, translation, fuzzy).errors,
                  warnings |-> validate_entry(source, translation, fuzzy).warnings,
                  fuzzy |-> fuzzy]
    /\ UNCHANGED <<entries, poFile, mappingFile, importFile, source, translation>>

\* PlaceholderValidator.auto_fix on the source and the translation, which becomes
\* the text returned; given keeps the text passed in.  A caller may pass the
\* text returned once more.
AutoFix ==
    /\ pc \in {"init", "fixed"}
    /\ pc' = IF pc = "init" THEN "fixed" ELSE "fixed_twice"
    /\ tool' = "v2"
    /\ translation' = auto_fix(source, translation).fixed
    /\ result' = [errors |-> <<>>, warnings |-> <<>>, fuzzy |-> FALSE,
                  given |-> translation, fixes |-> auto_fix(source, translation).fixes]
    /\ UNCHANGED <<entries, poFile, mappingFile, importFile, source>>

NextVal ==
    \/ ValidateV2
    \/ \E fuzzy \in BOOLEAN : ValidateV1(fuzzy)
    \/ AutoFix

SpecVal == InitVal /\ [][NextVal]_vars

Recorded(list, issue) == \E i \in 1..Len(list) : list[i] = issue

\* the brand list of the tool that validated
BrandsOf(t) == IF t = "v1" THEN BRANDS_V1 ELSE BRANDS_V2

\* C9: for every token %1..%9, a translation that does not hold the token exactly
\* as often as the source does (also when the source does not hold it at all) draws
\* a placeholder-count error for that token, so it is not accepted.  Stated for
\* the validation of a translation that is there and, for translate.py, of an
\* entry that is not fuzzy.
C9_PlaceholderCountsMustMatch ==
    (pc = "validated" /\ translation # <<>> /\ ~result.fuzzy)
    => \A d \in Digits19 :
          Count(source, <<"%", d>>) # Count(translation, <<"%", d>>)
          => Recorded(result.errors, <<"placeholder", <<"%", d>> >>)

\* C10: a configured brand that occurs in the source and not (case-sensitively) in
\* the translation is recorded as an error and never as a warning, whether the
\* entry validated is fuzzy or not.
C10_MissingBrandIsAlwaysAnError ==
    (pc = "validated" /\ translation # <<>>)
    => \A i \in 1..Len(BrandsOf(tool)) :
          (Contains(source, BrandsOf(tool)[i]) /\ ~Contains(translation, BrandsOf(tool)[i]))
          => /\ Recorded(result.errors, <<"brand", BrandsOf(tool)[i]>>)
             /\ ~Recorded(result.warnings, <<"brand", BrandsOf(tool)[i]>>)

\* C13: auto_fix is idempotent: passing the text it returned through it again
\* returns the same text, also when the translation holds more %s/%d/%f than the
\* source has placeholders.
C13_AutoFixIdempotent ==
    pc = "fixed_twice" => translation = result.given

(***************************************************************************)
(* BatchManager: the split of the exported numbers into batches.  SpecBatch *)
(* constructs a BatchManager for every total and num_batches within the    *)
(* bounds and calls get_batch_ranges on it; result holds the object's      *)
(* fields and then the list returned.                                      *)
(***************************************************************************)
MaxTotal == 17
MaxBatches == 8

BatchSize_Floor(total, num_batches) ==
    IF num_batches > 0 THEN total \div num_batches ELSE total

\* BatchManager.__init__: self.batch_size.
batch_size(total, num_batches) ==
    IF num_batches > 0 THEN (total + num_batches - 1) \div num_batches ELSE total

\* BatchManager.get_batch_ranges: the tuples (batch_num, start, end) for
\* i = 0 .. num_batches - 1 whose start is within total, in that order.
get_batch_ranges(total, num_batches) ==
    LET bs == batch_size(total, num_batches)
        all == [k \in 1..num_batches |->
                  << k, (k - 1) * bs + 1, Min(k * bs, total) >>]
    IN  SelectSeq(all, LAMBDA r : r[2] <= total)

InitBatch ==
    /\ pc = "init"
    /\ tool = "v2"
    /\ \E total \in 1..MaxTotal, num_batches \in 1..MaxBatches :
          result = [total |-> total, num_batches |-> num_batches]
    /\ entries = <<>>
    /\ poFile = <<>>
    /\ mappingFile = Absent
    /\ importFile = Absent
    /\ source = <<>>
    /\ translation = <<>>

GetBatchRanges ==
    /\ pc = "init"
    /\ pc' = "ranges"
    /\ result' = [total |-> result.total, num_batches |-> result.num_batches,
                  ranges |-> get_batch_ranges(result.total, result.num_batches)]
    /\ UNCHANGED <<tool, entries, poFile, mappingFile, importFile, source, translation>>

NextBatch == GetBatchRanges

SpecBatch == InitBatch /\ [][NextBatch]_vars

\* The least k with k * b >= a.
CeilDiv(a, b) == CHOOSE k \in 0..a : k * b >= a /\ (k - 1) * b < a

RangeSize(r) == r[3] - r[2] + 1

\* C14: for total >= 1 and num_batches >= 1 the ranges of get_batch_ranges start
\* at 1, each next one starts right after the previous one ends, and the last
\* ends at total (contiguous, disjoint, covering 1..total); every range except
\* the last holds ceil(total/num_batches) numbers, the last between 1 and that.
C14_BatchRangesPartition ==
    pc = "ranges" =>
        LET r == result.ranges
            n == Len(r)
            c == CeilDiv(result.total, result.num_batches)
        IN  /\ n >= 1
            /\ r[1][2] = 1
            /\ r[n][3] = result.total
            /\ \A i \in 1..(n - 1) : r[i + 1][2] = r[i][3] + 1
            /\ \A i \in 1..(n - 1) : RangeSize(r[i]) = c
            /\ RangeSize(r[n]) \in 1..c

C14_Witness ==
    /\ pc = "ranges"
    /\ result.total = 17
    /\ result.num_batches = 4
    /\ result.ranges = << <<1, 1, 5>>, <<2, 6, 10>>, <<3, 11, 15>>, <<4, 16, 17>> >>

(***************************************************************************)
(* The export functions on a filtered list.  SpecExport hands every list   *)
(* of up to ExportMaxEntries entries, taken from entries of five groups    *)
(* (one key holds a newline), to export_v2_format (num_batches = 0, the    *)
(* default) and to export_grouped_format; entries holds the list given.    *)
(***************************************************************************)
ExportMaxEntries == 3

Ref_other == <<"m", ".", "l", "u", "a", ":", "1">>

\* entries of the groups General, Settings, Actions, Gestures and Error Messages
ExportSamples ==
    { [NewEntry EXCEPT !.msgid = <<"a", NL, "b">>],
      [NewEntry EXCEPT !.msgid = Txt_ph, !.references = <<Str_settings_schema>>],
      [NewEntry EXCEPT !.msgid = Txt_brand, !.references = <<Str_actions>>],
      [NewEntry EXCEPT !.msgid = Str_gestures \o <<"g">>,
                       !.references = <<Str_settings_schema>>],
      [NewEntry EXCEPT !.msgid = Str_fail, !.references = <<Ref_other>>] }

InitExport ==
    /\ pc = "init"
    /\ tool = "none"
    /\ entries \in SeqsUpTo(ExportSamples, ExportMaxEntries)
    /\ poFile = <<>>
    /\ mappingFile = Absent
    /\ importFile = Absent
    /\ result = Result(0, {}, FALSE)
    /\ source = <<>>
    /\ translation = <<>>

\* export_v2_format (t = "v2"); export_grouped_format and the write of its
\* return value by cmd_export (t = "v1")
ExportFormat(t) ==
    /\ pc = "init"
    /\ pc' = "exported"
    /\ tool' = t
    /\ importFile' = File(ExportLines(t, entries))
    /\ mappingFile' = File(ExportMapping(t, entries))
    /\ UNCHANGED <<entries, poFile, result, source, translation>>

NextExport ==
    \/ ExportFormat("v2")
    \/ ExportFormat("v1")

SpecExport == InitExport /\ [][NextExport]_vars

\* the place of a group in the fixed order of translate.py
GroupRank(e) == CHOOSE g \in 1..Len(group_order) : group_order[g] = get_group(e)

\* the number entry i of the filtered list is expected under: its place in
\* filtered order (v2); the count of entries of an earlier group, or of its own
\* group and not after it (v1)
ExpectedNumber(t, ents, i) ==
    IF t = "v2" THEN i
    ELSE Cardinality({j \in 1..Len(ents) :
            \/ GroupRank(ents[j]) < GroupRank(ents[i])
            \/ GroupRank(ents[j]) = GroupRank(ents[i]) /\ j <= i})

\* the lines of an export file that start with a digit
NumberedLines(lines) ==
    SelectSeq(lines, LAMBDA l : l # <<>> /\ l[1] \in Digits19 \cup {"0"})

\* C15: after an export of N filtered entries the mapping has the keys 1..N,
\* entry i of the list is the one stored under its expected number (filtered
\* order in translate_v2.py, group order then filtered order in translate.py),
\* so the numbers and the entries correspond one to one, and the i-th numbered
\* line of the file is "i. " followed by the newline-encoded mapping[i].
C15_ExportNumbersTheFilteredEntries ==
    pc = "exported" =>
        LET N == Len(entries)
            mapping == mappingFile.content
            numbered == NumberedLines(importFile.content)
        IN  /\ DOMAIN mapping = 1..N
            /\ \A i \in 1..N :
                  /\ ExpectedNumber(tool, entries, i) \in 1..N
                  /\ mapping[ExpectedNumber(tool, entries, i)] = entries[i].msgid
            /\ \A i, j \in 1..N :
                  i # j => ExpectedNumber(tool, entries, i) # ExpectedNumber(tool, entries, j)
            /\ Len(numbered) = N
            /\ \A i \in 1..N :
                  /\ numbered[i] = NumberedLine(i, DisplayText(tool, mapping[i]))
                  /\ ~Contains(numbered[i], <<NL>>)

C15_Witness ==
    /\ pc = "exported"
    /\ tool = "v1"
    /\ Len(entries) = 3
    /\ get_group(entries[1]) = "General"
    /\ get_group(entries[2]) = "Gestures"
    /\ get_group(entries[3]) = "Settings"
    /\ mappingFile.content = <<entries[3].msgid, entries[2].msgid, entries[1].msgid>>

(***************************************************************************)
(* all-run and multi-run over several languages.  In SpecMulti poFile maps *)
(* each language code to the lines of its catalog file, entries is the     *)
(* list languages_to_process, and result holds the position in the loop,   *)
(* the counters, the exit status and what the command printed per language *)
(* (log: the number of batches started, then ERROR or Applied).  One step  *)
(* is the command up to the loop, or one language of the loop (the last    *)
(* one together with the return).  The catalogs start in the block layout  *)
(* of gettext tools, so a file that was written differs from the one that  *)
(* was there.                                                              *)
(***************************************************************************)
\* the strings of one provider call (50 in the source, scaled down so that a
\* language with two strings takes two batches)
BATCH_SIZE == 1

MAX_RETRIES == 3

MultiLangs == <<"de", "fr">>

\* what the provider writes after a number
MultiTexts == {Txt_ph, Txt_wrong}

WrappedEntryLines(e) ==
    << <<>>,
       Str_msgid \o <<SP>> \o Quoted(<<>>),
       Quoted(escape_po_string(e.msgid)),
       Str_msgstr \o <<SP>> \o Quoted(escape_po_string(e.msgstr)) >>

WrappedFile(c) ==
    write_po_file("v2", <<HeaderEntry>>, {}, {})
    \o Concat([i \in 1..Len(c) |-> WrappedEntryLines(c[i])])

\* one or two untranslated strings, or one verified string
MultiCatalogs ==
    { <<MkEntry(Txt_ph, <<>>, FALSE)>>,
      <<MkEntry(Txt_ph, <<>>, FALSE), MkEntry(Txt_brand, <<>>, FALSE)>>,
      <<MkEntry(Txt_ph, Txt_ph, FALSE)>> }

\* the text of one provider answer: numbered lines, the numbers ascending
ProviderAnswers(n) ==
    {r \in SeqsUpTo((1..n) \X MultiTexts, n) :
        \A i, j \in 1..Len(r) : i < j => r[i][1] < r[j][1]}

\* APITranslator._parse_response: the numbered lines whose number was asked for
ParseResponse(response, expected_nums) ==
    SelectSeq(response, LAMBDA line : line[1] \in expected_nums)

\* APITranslator.translate_strings: the numbers of batch b of n strings
BatchNums(n, b) == ((b - 1) * BATCH_SIZE + 1) .. Min(b * BATCH_SIZE, n)

TotalBatches(n) == (n + BATCH_SIZE - 1) \div BATCH_SIZE

\* the provider during one translate_strings call: for each batch, how many
\* attempts fail before one returns, and the answer of that one
ProviderCalls(n) ==
    [1..TotalBatches(n) -> [failures : 0..MAX_RETRIES, response : ProviderAnswers(n)]]

\* APITranslator._translate_batch_with_retry raises when MAX_RETRIES attempts failed
BatchRaises(call) == call.failures >= MAX_RETRIES

\* APITranslator.translate_strings: raised, the batches started and the results
translate_strings(n, calls) ==
    LET tb == TotalBatches(n)
        bad == {b \in 1..tb : BatchRaises(calls[b])}
        first == CHOOSE b \in bad : \A c \in bad : b <= c
    IN  IF bad # {}
        THEN [raised |-> TRUE, batches |-> first, results |-> <<>>]
        ELSE [raised |-> FALSE, batches |-> tb,
              results |-> Concat([b \in 1..tb |->
                             ParseResponse(calls[b].response, BatchNums(n, b))])]

ExitStatus_AlwaysZero(fail_count) == 0

\* the return of cmd_all_run and cmd_multi_run after the loop
ExitStatus(fail_count) == IF fail_count = 0 THEN 0 ELSE 1

InitMulti ==
    /\ pc = "init"
    /\ tool = "v2"
    /\ poFile \in [{MultiLangs[i] : i \in 1..Len(MultiLangs)}
                     -> {WrappedFile(c) : c \in MultiCatalogs}]
    /\ entries = <<>>
    /\ mappingFile = Absent
    /\ importFile = Absent
    /\ result = [rc |-> 0, mode |-> "empty", idx |-> 1, success_count |-> 0,
                 fail_count |-> 0, log |-> <<>>]
    /\ source = <<>>
    /\ translation = <<>>

\* cmd_all_run (langs: the sorted codes) and cmd_multi_run (langs: the codes of
\* the command line) up to the loop, after the checks of the provider and the
\* key: the languages with something to translate, then "Proceed?"
MultiStart(cmd, langs, mode) ==
    LET parsed == [i \in 1..Len(langs) |->
                      [lang_code |-> langs[i], entries |-> parse_po_file(poFile[langs[i]])]]
        languages_to_process ==
            SelectSeq(parsed, LAMBDA p : filter_entries("v2", p.entries, mode) # <<>>)
    IN  /\ pc = "init"
        /\ tool' = "v2"
        /\ \E proceed \in BOOLEAN :
              /\ pc' = IF languages_to_process = <<>> \/ ~proceed THEN "done" ELSE cmd
              /\ entries' = IF languages_to_process = <<>> \/ ~proceed
                            THEN <<>> ELSE languages_to_process
        /\ result' = [result EXCEPT !.mode = mode]
        /\ UNCHANGED <<poFile, mappingFile, importFile, source, translation>>

\* the body of the loop over languages_to_process for the language at idx, and
\* the return after the last one
LangStep ==
    /\ pc \in {"all_run", "multi_run"}
    /\ result.idx <= Len(entries)
    /\ LET item == entries[result.idx]
           to_translate == filter_entries("v2", item.entries, result.mode)
           last == result.idx = Len(entries)
       IN  \E calls \in ProviderCalls(Len(to_translate)) :
             LET got == translate_strings(Len(to_translate), calls)
                 translations == RunLoop(<<>>, to_translate, got.results, FALSE)
                 fail_count == result.fail_count + (IF got.raised THEN 1 ELSE 0)
             IN  /\ poFile' = IF got.raised THEN poFile
                              ELSE [poFile EXCEPT ![item.lang_code] =
                                       MergeAndWrite("v2", item.entries, translations, FALSE)]
                 /\ result' = [result EXCEPT
                       !.idx = @ + 1,
                       !.fail_count = fail_count,
                       !.success_count = @ + (IF got.raised THEN 0 ELSE 1),
                       !.log = Append(@, [lang_code |-> item.lang_code,
                                          batches |-> got.batches,
                                          error |-> got.raised,
                                          applied |-> Len(translations)]),
                       !.rc = IF last THEN ExitStatus(fail_count) ELSE @]
                 /\ pc' = IF last THEN "done" ELSE pc
    /\ UNCHANGED <<tool, entries, mappingFile, importFile, source, translation>>

\* the language lists of the command line of multi-run
MultiArgs == {<<"de">>, <<"fr">>, <<"de", "fr">>, <<"fr", "de">>}

NextMulti ==
    \/ \E mode \in Modes : MultiStart("all_run", MultiLangs, mode)
    \/ \E langs \in MultiArgs, mode \in Modes : MultiStart("multi_run", langs, mode)
    \/ LangStep

SpecMulti == InitMulti /\ [][NextMulti]_vars

\* a catalog file as write_po_file leaves it
IsWritten(lines) == lines = write_po_file("v2", parse_po_file(lines), {}, {})

\* C17: in the loop of all-run and multi-run every language of the list is
\* processed in turn whatever happened to the ones before; when the provider
\* call of a language fails after its retries no catalog file changes in that
\* step (also when earlier batches of the language were answered); a language
\* that does not fail gets its file written and no other file changes; and the
\* command returns non-zero exactly when some language failed.
C17_FailedLanguageIsolated ==
    [][(pc = "all_run" \/ pc = "multi_run")
       => LET lang == entries[result.idx].lang_code
              line == result'.log[Len(result'.log)]
          IN  /\ Len(result'.log) = result.idx
              /\ result'.idx = result.idx + 1
              /\ line.lang_code = lang
              /\ line.error => poFile' = poFile
              /\ ~line.error
                 => /\ IsWritten(poFile'[lang])
                    /\ poFile'[lang] # poFile[lang]
                    /\ \A l \in DOMAIN poFile : l # lang => poFile'[l] = poFile[l]
              /\ pc' = "done" <=> result.idx = Len(entries)
              /\ pc' = "done"
                 => (result'.rc # 0
                       <=> \E k \in 1..Len(result'.log) : result'.log[k].error)]_vars

\* the first language failed in its second batch, the second was written
C17_Witness ==
    /\ pc = "done"
    /\ Len(result.log) = 2
    /\ result.log[1].error
    /\ result.log[1].batches = 2
    /\ ~result.log[2].error
    /\ result.log[2].applied > 0
    /\ ~IsWritten(poFile[result.log[1].lang_code])
    /\ IsWritten(poFile[result.log[2].lang_code])
    /\ result.rc = 1

(***************************************************************************)
(* write_po_file step by step.  SpecWrite follows one write-back of a      *)
(* merged catalog: open(filepath, 'w') empties the file, each f.write adds *)
(* to it (here line by line), leaving the with block closes it; the        *)
(* process may be interrupted between any two of these steps.  result      *)
(* holds the content before the write (old), the lines to write (new) and  *)
(* the number of lines written so far.                                     *)
(***************************************************************************)
WriteMaxEntries == 2

WriteCatalogs ==
    {<<HeaderEntry>> \o c : c \in SeqsUpTo(SampleEntries, WriteMaxEntries) \ {<<>>}}

InitWrite ==
    /\ pc = "init"
    /\ tool = "none"
    /\ poFile \in {write_po_file("v2", c, {}, {}) : c \in WriteCatalogs}
    /\ entries = <<>>
    /\ mappingFile = Absent
    /\ importFile = Absent
    /\ result = [old |-> <<>>, new |-> <<>>, written |-> 0]
    /\ source = <<>>
    /\ translation = <<>>

\* write_po_file after the merge of one translation: `with open(filepath, 'w')`
WriteOpen(t) ==
    /\ pc = "init"
    /\ pc' = "writing"
    /\ tool' = t
    /\ \E key \in Keys, verified \in BOOLEAN :
          result' = [old |-> poFile,
                     new |-> MergeAndWrite(t, parse_po_file(poFile),
                                           <<<<key, key \o Txt_plain>>>>, verified),
                     written |-> 0]
    /\ poFile' = <<>>
    /\ UNCHANGED <<entries, mappingFile, importFile, source, translation>>

\* one f.write of write_po_file reaching the file
WriteLine ==
    /\ pc = "writing"
    /\ result.written < Len(result.new)
    /\ poFile' = Append(poFile, result.new[result.written + 1])
    /\ result' = [result EXCEPT !.written = @ + 1]
    /\ UNCHANGED <<pc, tool, entries, mappingFile, importFile, source, translation>>

\* the end of the with block of write_po_file
WriteClose ==
    /\ pc = "writing"
    /\ result.written = Len(result.new)
    /\ pc' = "written"
    /\ UNCHANGED <<tool, poFile, entries, mappingFile, importFile, result, source,
                   translation>>

\* the process is interrupted (a signal, a crash) while write_po_file runs
Interrupt ==
    /\ pc = "writing"
    /\ pc' = "interrupted"
    /\ UNCHANGED <<tool, poFile, entries, mappingFile, importFile, result, source,
                   translation>>

NextWrite ==
    \/ \E t \in {"v1", "v2"} : WriteOpen(t)
    \/ WriteLine
    \/ WriteClose
    \/ Interrupt

SpecWrite == InitWrite /\ [][NextWrite]_vars

\* C18: the write-back is atomic: after an interruption during write_po_file
\* the catalog file holds the complete previous content or the complete new
\* content.
C18_WriteBackIsAtomic ==
    pc = "interrupted" => poFile = result.old \/ poFile = result.new

(***************************************************************************)
(* parse_po_file on catalogs with and without a header block.  SpecParse   *)
(* parses files of up to ParseMaxEntries blocks, as write_po_file lays     *)
(* them out (a key holding a newline goes in block form) and in the block  *)
(* layout of gettext tools; entries holds the list returned.               *)
(***************************************************************************)
ParseMaxEntries == 2

Txt_two_lines == <<"a", NL, "b">>

ParseSamples ==
    {HeaderEntry, TwoFlagEntry}
    \cup {MkEntry(Txt_two_lines, x, FALSE) : x \in {<<>>, Txt_plain}}
    \cup {MkEntry(Txt_ph, x, f) : x \in {<<>>, Txt_plain}, f \in BOOLEAN}

ParseCatalogs == SeqsUpTo(ParseSamples, ParseMaxEntries) \ {<<>>}

ParseFiles ==
    {write_po_file("v2", c, {}, {}) : c \in ParseCatalogs}
    \cup {Concat([i \in 1..Len(c) |-> WrappedEntryLines(c[i])]) : c \in ParseCatalogs}

InitParse ==
    /\ pc = "init"
    /\ tool = "none"
    /\ poFile \in ParseFiles
    /\ entries = <<>>
    /\ mappingFile = Absent
    /\ importFile = Absent
    /\ result = Result(0, {}, FALSE)
    /\ source = <<>>
    /\ translation = <<>>

\* parse_po_file(po_path) of tool t
ParseFile(t) ==
    /\ pc = "init"
    /\ pc' = "parsed"
    /\ tool' = t
    /\ entries' = parse_po_file(poFile)
    /\ UNCHANGED <<poFile, mappingFile, importFile, result, source, translation>>

NextParse ==
    \/ ParseFile("v2")
    \/ ParseFile("v1")

SpecParse == InitParse /\ [][NextParse]_vars

\* C19: in a catalog returned by parse_po_file an entry marked as header has an
\* empty key and is the first entry, and at most one entry is marked; also when
\* the first block of the file has its key in block form.
C19_HeaderIsFirstAndHasEmptyKey ==
    pc = "parsed"
    => /\ \A i \in 1..Len(entries) :
             entries[i].is_header => entries[i].msgid = <<>> /\ i = 1
       /\ Cardinality({i \in 1..Len(entries) : entries[i].is_header}) <= 1

(***************************************************************************)
(* escape_po_string and unescape_po_string on one string.  SpecEscape      *)
(* escapes every string of up to EscapeMaxLen characters over newline,     *)
(* tab, double quote, backslash, n and t (source) into translation, then   *)
(* unescapes that into result.                                             *)
(***************************************************************************)
EscapeMaxLen == 3

InitEscape ==
    /\ pc = "init"
    /\ tool = "none"
    /\ source \in SeqsUpTo(CodecAlphabet, EscapeMaxLen)
    /\ translation = <<>>
    /\ result = [text |-> <<>>]
    /\ poFile = <<>>
    /\ entries = <<>>
    /\ mappingFile = Absent
    /\ importFile = Absent

\* escape_po_string(s)
Escape ==
    /\ pc = "init"
    /\ pc' = "escaped"
    /\ translation' = escape_po_string(source)
    /\ UNCHANGED <<tool, poFile, entries, mappingFile, importFile, result, source>>

\* unescape_po_string of what escape_po_string returned
Unescape ==
    /\ pc = "escaped"
    /\ pc' = "unescaped"
    /\ result' = [text |-> unescape_po_string(translation)]
    /\ UNCHANGED <<tool, poFile, entries, mappingFile, importFile, source, translation>>

NextEscape ==
    \/ Escape
    \/ Unescape

SpecEscape == InitEscape /\ [][NextEscape]_vars

\* C20: unescape_po_string(escape_po_string(s)) = s for every string s over
\* backslash, double quote, newline, tab and the letters n and t.
C20_UnescapeInvertsEscape ==
    pc = "unescaped" => result.text = source

(***************************************************************************)
(* NewlineHandler.encode and decode on one string.  SpecNewline encodes    *)
(* every string of up to NewlineMaxPieces pieces (a newline, the marker    *)
(* text, a letter, an opening bracket) from source into translation, as    *)
(* the export does, then decodes that into result, as the import does.     *)
(***************************************************************************)
NewlineMaxPieces == 3

NewlinePieces == {<<NL>>, NEWLINE_MARKER, Txt_plain, <<"[">>}

InitNewline ==
    /\ pc = "init"
    /\ tool = "v2"
    /\ source \in {Concat(p) : p \in SeqsUpTo(NewlinePieces, NewlineMaxPieces)}
    /\ translation = <<>>
    /\ result = [text |-> <<>>]
    /\ poFile = <<>>
    /\ entries = <<>>
    /\ mappingFile = Absent
    /\ importFile = Absent

\* NewlineHandler.encode(text)
Encode ==
    /\ pc = "init"
    /\ pc' = "encoded"
    /\ translation' = NewlineEncode(source)
    /\ UNCHANGED <<tool, poFile, entries, mappingFile, importFile, result, source>>

\* NewlineHandler.decode of what encode returned
Decode ==
    /\ pc = "encoded"
    /\ pc' = "decoded"
    /\ result' = [text |-> NewlineDecode(translation)]
    /\ UNCHANGED <<tool, poFile, entries, mappingFile, importFile, source, translation>>

NextNewline ==
    \/ Encode
    \/ Decode

SpecNewline == InitNewline /\ [][NextNewline]_vars

\* C21: NewlineHandler.decode(NewlineHandler.encode(s)) = s for every string s,
\* also one that already holds the marker text [NL].
C21_DecodeInvertsEncode ==
    pc = "decoded" => result.text = source

(***************************************************************************)
(* Claims on auto_fix, under SpecVal                                       *)
(***************************************************************************)
RECURSIVE MatchStarts(_, _, _)
\* the positions, left to right, at which a two-character token of the class
\* starts in text (k: the characters already passed)
MatchStarts(text, class, k) ==
    IF Len(text) < 2 THEN <<>>
    ELSE IF text[1] = "%" /\ text[2] \in class
         THEN <<k + 1>> \o MatchStarts(Drop(text, 2), class, k + 2)
         ELSE MatchStarts(Tail(text), class, k + 1)

\* the translation with its i-th wrong-format occurrence turned into the i-th
\* placeholder of the source for i up to count, nothing else changed
PositionalFix(src, trans, count) ==
    LET p == extract_placeholders(src)
        w == MatchStarts(trans, {"s", "d", "f"}, 0)
    IN  [j \in 1..Len(trans) |->
            IF \E i \in 1..count : j = w[i] + 1
            THEN p[CHOOSE i \in 1..count : j = w[i] + 1][2]
            ELSE trans[j]]

\* C22: auto_fix replaces the i-th wrong-format occurrence of the translation by
\* the i-th placeholder of the source for exactly i = 1..min(m, n) and changes
\* no other character, reports min(m, n) fixes, and every %N token of the
\* result is a token of the given translation or of the source.
C22_AutoFixIsPositional ==
    pc = "fixed" =>
        LET m == Len(extract_placeholders(source))
            n == Len(MatchStarts(result.given, {"s", "d", "f"}, 0))
            least == IF m < n THEN m ELSE n
        IN  /\ translation = PositionalFix(source, result.given, least)
            /\ result.fixes = least
            /\ \A k \in 1..Len(extract_placeholders(translation)) :
                  \/ \E i \in 1..m :
                        extract_placeholders(translation)[k] = extract_placeholders(source)[i]
                  \/ \E i \in 1..Len(extract_placeholders(result.given)) :
                        extract_placeholders(translation)[k]
                            = extract_placeholders(result.given)[i]

\* two placeholders in the source, three wrong-format occurrences of two kinds
C22_Witness ==
    /\ pc = "fixed"
    /\ source = Txt_ph2 \o Txt_ph
    /\ result.given = Txt_wrong \o Txt_wrong_d \o Txt_wrong
    /\ translation = Txt_ph2 \o Txt_ph \o Txt_wrong
    /\ result.fixes = 2

RetryMaxStrings == 3

RETRY_DELAY == 5

RetryWait_Constant(attempt) == RETRY_DELAY

\* the delay after failed attempt number attempt (0-based)
RetryWait(attempt) == RETRY_DELAY * (attempt + 1)

InitRetry ==
    /\ pc = "attempt"
    /\ tool = "v2"
    /\ \E n \in 1..RetryMaxStrings :
          result = [n |-> n, attempt |-> 0, calls |-> 0, slept |-> <<>>, value |-> <<>>]
    /\ poFile = <<>>
    /\ entries = <<>>
    /\ mappingFile = Absent
    /\ importFile = Absent
    /\ source = <<>>
    /\ translation = <<>>

\* an attempt whose _translate_batch returns: the parsed response is returned
AttemptReturns ==
    /\ pc = "attempt"
    /\ result.attempt < MAX_RETRIES
    /\ pc' = "returned"
    /\ \E response \in ProviderAnswers(result.n) :
          result' = [result EXCEPT !.calls = @ + 1,
                                   !.value = ParseResponse(response, 1..result.n)]
    /\ UNCHANGED <<tool, poFile, entries, mappingFile, importFile, source, translation>>

\* an attempt whose _translate_batch raises: sleep before the next attempt, or
\* re-raise on the last one
AttemptFails ==
    /\ pc = "attempt"
    /\ result.attempt < MAX_RETRIES
    /\ IF result.attempt < MAX_RETRIES - 1
       THEN /\ pc' = "sleeping"
            /\ result' = [result EXCEPT !.calls = @ + 1,
                                        !.slept = Append(@, RetryWait(result.attempt))]
       ELSE /\ pc' = "raised"
            /\ result' = [result EXCEPT !.calls = @ + 1]
    /\ UNCHANGED <<tool, poFile, entries, mappingFile, importFile, source, translation>>

\* time.sleep returns and the loop goes to its next attempt
Wake ==
    /\ pc = "sleeping"
    /\ pc' = "attempt"
    /\ result' = [result EXCEPT !.attempt = @ + 1]
    /\ UNCHANGED <<tool, poFile, entries, mappingFile, importFile, source, translation>>

NextRetry ==
    \/ AttemptReturns
    \/ AttemptFails
    \/ Wake

SpecRetry == InitRetry /\ [][NextRetry]_vars /\ WF_vars(NextRetry)

\* the delays after failed attempts 1..k: RETRY_DELAY, 2 * RETRY_DELAY, ...
Backoff(k) == [i \in 1..k |-> 5 * i]

\* C24: _translate_batch_with_retry calls the provider at most MAX_RETRIES (3)
\* times; a successful call ends it at once with that call's result; after
\* failed attempt k < 3 it has waited 5 * k (5, then 10); after the third
\* failure it raises with no result and only the two waits; nothing happens
\* after it returned or raised; and it always ends.
C24_BoundedRetriesWithBackoff ==
    /\ [](/\ result.calls <= 3
          /\ pc = "attempt" => result.calls = result.attempt /\ result.slept = Backoff(result.calls)
          /\ pc = "sleeping" => result.calls < 3 /\ result.slept = Backoff(result.calls)
          /\ pc = "returned" => result.slept = Backoff(result.calls - 1)
          /\ pc = "raised" => result.calls = 3 /\ result.slept = <<5, 10>> /\ result.value = <<>>)
    /\ [][pc \notin {"returned", "raised"}]_vars
    /\ <>(pc \in {"returned", "raised"})

\* the third attempt succeeds after waits of 5 and 10
C24_Witness ==
    /\ pc = "returned"
    /\ result.calls = 3
    /\ result.slept = <<5, 10>>
    /\ result.value # <<>>

(***************************************************************************)
(* Batch files: export --batches and combine.  In SpecSplit result.files   *)
(* maps the number N of each existing exports/LANG_batch_N.txt to its      *)
(* lines; the directory starts with any of the files 1, 2 and 10 left by   *)
(* earlier exports and by the translator.  entries is the list of the      *)
(* latest export, result.written the batch files it wrote, result.reported *)
(* the count it printed, result.combined what combine_from_files returned, *)
(* result.found the batch files that were there at the start.              *)
(***************************************************************************)
SplitMaxBatches == 3
SplitMaxEntries == 2
SplitMaxExports == 2

BatchFileNums == {1, 2, 10}

\* the lines of batch files found at the start
BatchFileSamples ==
    { << <<"#", SP, "h">>, NumberedLine(1, <<"a">>) >>,
      << NumberedLine(1, <<"b">>), NumberedLine(2, <<"b">>) >>,
      << NumberedLine(2, <<"a">>), NumberedLine(2, <<"c">>) >> }

\* the code point order of the characters that differ between two batch paths
PathCharRank(c) == IF c = "." THEN 0 ELSE DigitVal(c) + 1

RECURSIVE PathLess(_, _)
\* a < b for the strings that follow LANG_batch_ in two paths
PathLess(a, b) ==
    IF b = <<>> THEN FALSE
    ELSE IF a = <<>> THEN TRUE
    ELSE IF a[1] # b[1] THEN PathCharRank(a[1]) < PathCharRank(b[1])
    ELSE PathLess(Tail(a), Tail(b))

\* what follows LANG_batch_ in the path of batch file b
PathTail(b) == IntToStr(b) \o <<".", "t", "x", "t">>

RECURSIVE SortedNums(_)
\* sorted(...) of a set of numbers
SortedNums(S) ==
    IF S = {} THEN <<>>
    ELSE LET b == CHOOSE x \in S : \A y \in S : x <= y
         IN  <<b>> \o SortedNums(S \ {b})

\* the batch files in the order of their numbers
SortedPaths_Numeric(S) == SortedNums(S)

RECURSIVE SortedPaths(_)
\* sorted(input_dir.glob(...)): the batch files in the order of their paths
SortedPaths(S) ==
    IF S = {} THEN <<>>
    ELSE LET b == CHOOSE x \in S : \A y \in S \ {x} : PathLess(PathTail(x), PathTail(y))
         IN  <<b>> \o SortedPaths(S \ {b})

\* the first line of a batch file (its wording shortened): batch b of count
BatchHeader(b, count) == <<"#", SP>> \o IntToStr(b) \o <<"/">> \o IntToStr(count)

\* BatchManager.split_to_files: the batch files written, by number; strings is
\* the list of the encoded texts 1..total
split_to_files(strings, num_batches) ==
    LET ranges == get_batch_ranges(Len(strings), num_batches)
    IN  [b \in {ranges[i][1] : i \in 1..Len(ranges)} |->
            LET r == ranges[CHOOSE i \in 1..Len(ranges) : ranges[i][1] = b]
            IN  << BatchHeader(b, Len(ranges)), ExportHeader(Len(strings))[2], <<>> >>
                \o [k \in 1..(r[3] - r[2] + 1) |->
                       NumberedLine(r[2] + k - 1, strings[r[2] + k - 1])]]

RECURSIVE CombineLines(_, _)
\* the loop over the lines of one batch file
CombineLines(combined, lines) ==
    IF lines = <<>> THEN combined
    ELSE LET m == MatchNumbered(Head(lines))
         IN  CombineLines(IF m.ok THEN DictSet(combined, m.num, Strip(m.text))
                          ELSE combined, Tail(lines))

RECURSIVE CombineFiles(_, _, _)
CombineFiles(combined, files, paths) ==
    IF paths = <<>> THEN combined
    ELSE CombineFiles(CombineLines(combined, files[Head(paths)]), files, Tail(paths))

\* BatchManager.combine_from_files on the batch files of the language
combine_from_files(files) == CombineFiles(<<>>, files, SortedPaths(DOMAIN files))

InitSplit ==
    /\ pc = "init"
    /\ tool = "v2"
    /\ \E S \in SUBSET BatchFileNums : \E files \in [S -> BatchFileSamples] :
          result = [files |-> files, found |-> S, written |-> {}, reported |-> 0,
                    exports |-> 0, combined |-> <<>>, rc |-> 0]
    /\ entries = <<>>
    /\ poFile = <<>>
    /\ mappingFile = Absent
    /\ importFile = Absent
    /\ source = <<>>
    /\ translation = <<>>

\* cmd_export --batches=num_batches on a non-empty selection to_export:
\* export_v2_format writes the export, the mapping and the batch files
ExportBatches(to_export, num_batches) ==
    /\ pc \in {"init", "exported"}
    /\ result.exports < SplitMaxExports
    /\ pc' = "exported"
    /\ entries' = to_export
    /\ importFile' = File(ExportLines("v2", to_export))
    /\ mappingFile' = File(ExportMapping("v2", to_export))
    /\ LET strings == [i \in 1..Len(to_export) |-> NewlineEncode(to_export[i].msgid)]
           new == split_to_files(strings, num_batches)
       IN  result' = [result EXCEPT
              !.files = [b \in DOMAIN result.files \cup DOMAIN new |->
                           IF b \in DOMAIN new THEN new[b] ELSE result.files[b]],
              !.written = DOMAIN new,
              !.reported = num_batches,
              !.exports = @ + 1,
              !.rc = 0]
    /\ UNCHANGED <<tool, poFile, source, translation>>

\* cmd_combine: the combined file replaces exports/LANG.txt
Combine ==
    /\ pc \in {"init", "exported"}
    /\ pc' = "combined"
    /\ LET combined == combine_from_files(result.files)
           nums == SortedNums(DictKeys(combined))
       IN  /\ result' = [result EXCEPT !.combined = combined,
                                       !.rc = IF combined = <<>> THEN 1 ELSE 0]
           /\ importFile' =
                 IF combined = <<>> THEN importFile
                 ELSE File(ExportHeader(Len(combined))
                           \o [k \in 1..Len(nums) |->
                                  NumberedLine(nums[k], DictGet(combined, nums[k]))])
    /\ UNCHANGED <<tool, poFile, entries, mappingFile, source, translation>>

SplitLists ==
    {[i \in 1..Len(c) |-> MkEntry(c[i], <<>>, FALSE)] :
        c \in SeqsUpTo(Keys, SplitMaxEntries) \ {<<>>}}

NextSplit ==
    \/ \E to_export \in SplitLists, num_batches \in 1..SplitMaxBatches :
          ExportBatches(to_export, num_batches)
    \/ Combine

SpecSplit == InitSplit /\ [][NextSplit]_vars

\* C25: an export with batch splitting writes exactly num_batches batch files,
\* the count it reports as created, also when there are fewer strings than
\* batches.
C25_SplitWritesNumBatchesFiles ==
    pc = "exported"
    => Cardinality(result.written) = result.reported

\* the numbered lines of the batch files, as <<file, line>> positions
NumberedAt(files) ==
    {o \in UNION {{<<b, k>> : k \in 1..Len(files[b])} : b \in DOMAIN files} :
        MatchNumbered(files[o[1]][o[2]]).ok}

\* position o2 is read after position o: a later line of the same file, or a
\* line of a file whose path sorts later
ReadAfter(o2, o) ==
    \/ o2[1] = o[1] /\ o2[2] > o[2]
    \/ o2[1] # o[1] /\ PathLess(PathTail(o[1]), PathTail(o2[1]))

\* C26: the keys of the combined dict are the numbers of the numbered lines of
\* all batch files; a number that occurs several times keeps the text of its
\* last occurrence, files read in sorted path order (batch_10 before batch_2)
\* and lines in file order; a collision is no error.
C26_CombineLastOccurrenceWins ==
    pc = "combined"
    => LET files == result.files
           occ == NumberedAt(files)
           At(o) == MatchNumbered(files[o[1]][o[2]])
       IN  /\ DictKeys(result.combined) = {At(o).num : o \in occ}
           /\ \A o \in occ :
                 (\A o2 \in occ : At(o2).num = At(o).num => ~ReadAfter(o2, o))
                 => DictGet(result.combined, At(o).num) = Strip(At(o).text)
           /\ occ # {} => result.rc = 0

\* batch_10 and batch_2 both give number 2: the text of batch_2 is kept
C26_Witness ==
    /\ pc = "combined"
    /\ {2, 10} \subseteq DOMAIN result.files
    /\ result.files[10] = << NumberedLine(1, <<"b">>), NumberedLine(2, <<"b">>) >>
    /\ result.files[2] = << NumberedLine(2, <<"a">>), NumberedLine(2, <<"c">>) >>
    /\ DictGet(result.combined, 2) = <<"c">>
    /\ DictGet(result.combined, 1) = <<"b">>

\* C28: starting from a directory without batch files, after any sequence of
\* exports with batch splitting a combine yields only what the most recent
\* export wrote: every number is in 1..N of that export and its text stands
\* in a batch file written by that export.
C28_CombineSeesLatestExportOnly ==
    (pc = "combined" /\ result.found = {} /\ result.exports >= 1)
    => \A num \in DictKeys(result.combined) :
          /\ num \in 1..Len(entries)
          /\ \E b \in result.written : \E k \in 1..Len(result.files[b]) :
                LET m == MatchNumbered(result.files[b][k])
                IN  m.ok /\ m.num = num
                    /\ Strip(m.text) = DictGet(result.combined, num)

(***************************************************************************)
(* parse_po_file line by line.  In SpecLines poFile holds the lines still  *)
(* to read, result.st the state of the loop (the entries appended, the     *)
(* current entry and field) and result.read the lines read so far; the     *)
(* files are any sequences of up to LinesMaxLen lines of LineSamples,      *)
(* well-formed and malformed.                                              *)
(***************************************************************************)
LinesMaxLen == 4

Ln_msgid == Str_msgid \o <<SP>> \o Quoted(<<"a">>)
Ln_msgid_bare == Str_msgid \o <<SP, "a">>
Ln_plural == Str_msgid \o Str_plural \o <<SP>> \o Quoted(<<"p">>)
Ln_msgstr == Str_msgstr \o <<SP>> \o Quoted(<<>>)
Ln_msgstrN == Str_msgstr \o <<"[", "1", "]", SP>> \o Quoted(<<"x">>)
Ln_msgstrN_bare == Str_msgstr \o <<"[", "1", "]", SP, "x">>
Ln_quoted == Quoted(<<"q", BS, "n">>)
Ln_comment == <<"#", SP, "c">>

LineSamples ==
    {Ln_msgid, Ln_msgid_bare, Ln_plural, Ln_msgstr, Ln_msgstrN, Ln_msgstrN_bare,
     Ln_quoted, Ln_comment, <<>>, <<SP>>, <<"x">>}

InitLines ==
    /\ pc = "reading"
    /\ tool = "v2"
    /\ poFile \in SeqsUpTo(LineSamples, LinesMaxLen)
    /\ entries = <<>>
    /\ mappingFile = Absent
    /\ importFile = Absent
    /\ result = [st |-> ParseStart, read |-> <<>>]
    /\ source = <<>>
    /\ translation = <<>>

\* one iteration of "for line in f"; appending to a plural form that the
\* current entry does not have raises IndexError
ReadLine ==
    /\ pc = "reading"
    /\ poFile # <<>>
    /\ LET line == Head(poFile)
           st == result.st
           continuation == /\ Strip(line) # <<>>
                           /\ ~StartsWith(line, <<"#">>)
                           /\ ~StartsWith(line, Str_msgid \o <<SP>>)
                           /\ ~StartsWith(line, Str_msgid \o Str_plural \o <<SP>>)
                           /\ ~StartsWith(line, Str_msgstr \o <<SP>>)
                           /\ ~MatchPlural(line).ok
                           /\ StartsWith(line, <<DQ>>) /\ EndsWith(line, <<DQ>>)
       IN  IF /\ continuation
              /\ st.field = "msgstr_plural"
              /\ st.idx + 1 \notin DOMAIN st.cur.msgstr_plural
           THEN /\ pc' = "raised"
                /\ UNCHANGED <<poFile, result>>
           ELSE /\ pc' = "reading"
                /\ poFile' = Tail(poFile)
                /\ result' = [st |-> ParseLine(st, line), read |-> Append(result.read, line)]
    /\ UNCHANGED <<tool, entries, mappingFile, importFile, source, translation>>

\* the end of the file: the last entry is appended and the list returned
EndOfFile ==
    /\ pc = "reading"
    /\ poFile = <<>>
    /\ pc' = "parsed"
    /\ entries' = Emit(result.st)
    /\ UNCHANGED <<tool, poFile, mappingFile, importFile, result, source, translation>>

NextLines ==
    \/ ReadLine
    \/ EndOfFile

SpecLines == InitLines /\ [][NextLines]_vars

\* a line made of one quoted string
IsQuotedOnly(line) == Len(line) >= 2 /\ line[1] = DQ /\ line[Len(line)] = DQ

\* the field a line opens: a msgid, msgid_plural or msgstr line, or a line of
\* the form msgstr[N] "..."
Opens(line) ==
    IF StartsWith(line, Str_msgid \o <<SP>>) THEN "msgid"
    ELSE IF StartsWith(line, Str_msgid \o Str_plural \o <<SP>>) THEN "msgid_plural"
    ELSE IF StartsWith(line, Str_msgstr \o <<SP>>) THEN "msgstr"
    ELSE IF MatchPlural(line).ok THEN "msgstr_plural"
    ELSE NoField

\* the lines read since the last blank line that open a field
OpenersOfBlock(read) ==
    LET blanks == {i \in 1..Len(read) : Strip(read[i]) = <<>>}
        from == IF blanks = {} THEN 1 ELSE (CHOOSE i \in blanks : \A j \in blanks : j <= i) + 1
    IN  {i \in from..Len(read) : Opens(read[i]) # NoField}

\* C27: a line made of one quoted string is appended to the field opened by
\* the most recent msgid, msgid_plural, msgstr or msgstr[N] line of its block,
\* comment lines in between or not; when its block has opened no field (after
\* a blank line, at the start of the file) it changes no field; no line makes
\* the parser raise.
C27_ContinuationGoesToOpenField ==
    [][ /\ pc' # "raised"
        /\ (pc = "reading" /\ poFile # <<>> /\ IsQuotedOnly(Head(poFile)))
           => LET line == Head(poFile)
                  value == unescape_po_string(SubSeq(line, 2, Len(line) - 1))
                  openers == OpenersOfBlock(result.read)
                  last == CHOOSE i \in openers : \A j \in openers : j <= i
                  opener == result.read[last]
                  cur == result.st.cur
                  new == result'.st.cur
              IN  /\ result'.st.entries = result.st.entries
                  /\ IF openers = {} THEN new = cur
                     ELSE IF Opens(opener) = "msgid"
                     THEN new = [cur EXCEPT !.msgid = @ \o value]
                     ELSE IF Opens(opener) = "msgid_plural"
                     THEN new = [cur EXCEPT !.msgid_plural = @ \o value]
                     ELSE IF Opens(opener) = "msgstr"
                     THEN new = [cur EXCEPT !.msgstr = @ \o value]
                     ELSE new = [cur EXCEPT
                                   !.msgstr_plural[MatchPlural(opener).idx + 1] = @ \o value]
      ]_vars

\* a key continued after a comment line, then the end of the file
C27_Witness ==
    /\ pc = "parsed"
    /\ result.read = <<Ln_msgid, Ln_comment, Ln_quoted, Ln_msgstrN>>
    /\ Len(entries) = 1
    /\ entries[1].msgid = <<"a", "q", NL>>
    /\ entries[1].msgstr_plural = << <<>>, <<"x">> >>

(***************************************************************************)
(* Numbered lines without text.  SpecAccept runs one export and then an    *)
(* import or an API run on catalogs of fuzzy and empty entries, one key    *)
(* with a placeholder and one without; the import files and the answers    *)
(* of the provider hold numbered lines with a text and without one.        *)
(***************************************************************************)
AcceptMaxEntries == 2
AcceptMaxLines == 2

AcceptKeys == {Txt_plain, Txt_ph}

AcceptEntries ==
    {MkEntry(k, <<>>, FALSE) : k \in AcceptKeys}
    \cup {MkEntry(k, k, TRUE) : k \in AcceptKeys}

AcceptCatalogs ==
    {<<HeaderEntry>> \o c : c \in SeqsUpTo(AcceptEntries, AcceptMaxEntries) \ {<<>>}}

\* what stands after a number: a text, nothing, or blanks
AcceptTexts == {<<>>, Txt_plain, Txt_ph}

AcceptFiles ==
    {File(f) : f \in SeqsUpTo(
        {NumberedLine(n, x) : n \in 1..AcceptMaxEntries, x \in AcceptTexts}
        \cup {IntToStr(n) \o <<".">> : n \in 1..AcceptMaxEntries}, AcceptMaxLines)}

\* the dicts translate_strings can return for strings 1..n: _parse_response
\* keeps the stripped text of every numbered line whose number was asked for
AcceptResponses(n) ==
    {r \in SeqsUpTo((1..n) \X AcceptTexts, n) :
        \A i, j \in 1..Len(r) : i < j => r[i][1] < r[j][1]}

InitAccept ==
    /\ pc = "init"
    /\ tool = "none"
    /\ poFile \in {write_po_file("v2", c, {}, {}) : c \in AcceptCatalogs}
    /\ entries = <<>>
    /\ mappingFile = Absent
    /\ importFile = Absent
    /\ result = Result(0, {}, FALSE)
    /\ source = <<>>
    /\ translation = <<>>

\* cmd_run after the checks of the provider and the key
AcceptRun(ents, mode) ==
    LET to_translate == filter_entries("v2", ents, mode)
    IN  /\ pc' = "run"
        /\ tool' = "v2"
        /\ IF to_translate = <<>>
           THEN /\ result' = Result(0, {}, FALSE)
                /\ UNCHANGED poFile
           ELSE \E proceed \in BOOLEAN :
                  IF ~proceed
                  THEN /\ result' = Result(0, {}, FALSE)
                       /\ UNCHANGED poFile
                  ELSE \E results \in AcceptResponses(Len(to_translate)) :
                         LET translations == RunLoop(<<>>, to_translate, results, TRUE)
                         IN  IF translations = <<>>
                             THEN /\ result' = Result(1, {}, FALSE)
                                  /\ UNCHANGED poFile
                             ELSE /\ poFile' = MergeAndWrite("v2", ents, translations, FALSE)
                                  /\ result' = Result(0, DictKeys(translations), FALSE)
        /\ UNCHANGED <<mappingFile, importFile, entries, source, translation>>

NextAccept ==
    LET ents == parse_po_file(poFile)
    IN  \/ /\ pc = "init"
           /\ \E t \in {"v1", "v2"}, mode \in Modes :
                 mode \in ModesOf(t) /\ CmdExport(t, ents, mode)
        \/ /\ pc = "exported"
           /\ \E file \in AcceptFiles :
                 CmdImport("v1", ents, file,
                           ImportFormat("v1", file.content, mappingFile.content, ents, FALSE))
        \/ /\ pc = "exported"
           /\ \E file \in AcceptFiles, fix \in BOOLEAN :
                 CmdImport("v2", ents, file,
                           ImportFormat("v2", file.content, mappingFile.content, ents, fix))
        \/ /\ pc \in {"init", "exported"}
           /\ \E mode \in Modes : AcceptRun(ents, mode)

SpecAccept == InitAccept /\ [][NextAccept]_vars

\* C29: no import and no API run accepts an empty translation: a fuzzy entry
\* that holds a translation before a command holds a non-empty translation
\* after it, whatever numbered lines without text the import file or the
\* answer of the provider contains.
C29_NoEmptyTranslationAccepted ==
    [][\A i \in 1..Len(parse_po_file(poFile)) :
          (is_fuzzy(parse_po_file(poFile)[i]) /\ parse_po_file(poFile)[i].msgstr # <<>>)
          => /\ i <= Len(parse_po_file(poFile'))
             /\ parse_po_file(poFile')[i].msgstr # <<>>]_vars

(***************************************************************************)
(* translate_po.py.  In SpecPo poFile is the catalog file of the language  *)
(* (absent, or its lines, as write_po_file lays entries out: a translation *)
(* holding a newline stands in block form), result.translations the dict   *)
(* read from the JSON file and result.ok what translate_po_file returned.  *)
(* Its escape_po_string is that of translate_v2.py.                        *)
(***************************************************************************)
PoMaxEntries == 2
PoMaxTranslations == 2

PoKeys == {Txt_plain, Txt_ph}

PoEntries ==
    {MkEntry(k, x, FALSE) : k \in PoKeys, x \in {<<>>, Txt_plain, Txt_two_lines}}
    \cup {MkEntry(k, Txt_plain, TRUE) : k \in PoKeys}

PoCatalogs == {<<HeaderEntry>> \o c : c \in SeqsUpTo(PoEntries, PoMaxEntries) \ {<<>>}}

\* the texts of the JSON file
PoTexts == {<<"b">>, <<"b", NL, "c">>}

\* dicts of the JSON file: distinct keys, in file order
PoTranslations ==
    {d \in SeqsUpTo(PoKeys \X PoTexts, PoMaxTranslations) \ {<<>>} :
        \A i, j \in 1..Len(d) : i # j => d[i][1] # d[j][1]}

RECURSIVE ExpandTemplate(_)
\* what re.subn makes of the escapes in a replacement template: \\ is a
\* backslash, \n a newline, \t a tab, a backslash before a quote stays
ExpandTemplate(s) ==
    IF s = <<>> THEN <<>>
    ELSE IF s[1] = BS /\ Len(s) >= 2
    THEN (IF s[2] = BS THEN <<BS>>
          ELSE IF s[2] = "n" THEN <<NL>>
          ELSE IF s[2] = "t" THEN <<TAB>>
          ELSE <<BS, s[2]>>) \o ExpandTemplate(Drop(s, 2))
    ELSE <<s[1]>> \o ExpandTemplate(Tail(s))

Str_msgstr_empty == Str_msgstr \o <<SP>> \o Quoted(<<>>)

\* the pattern (msgid "KEY"\n)(msgstr "") matches at the end of line i - 1 and
\* the start of line i
PatternAt(lines, i, msgid) ==
    /\ i > 1
    /\ EndsWith(lines[i - 1], Str_msgid \o <<SP>> \o Quoted(msgid))
    /\ StartsWith(lines[i], Str_msgstr_empty)

\* re.subn(pattern, replacement, content) for one item of the dict
SubnOne(lines, msgid, msgstr) ==
    Concat([i \in 1..Len(lines) |->
              IF PatternAt(lines, i, msgid)
              THEN <<FuzzyLine>>
                   \o Split(Str_msgstr \o <<SP>>
                            \o Quoted(ExpandTemplate(escape_po_string(msgstr)))
                            \o Drop(lines[i], Len(Str_msgstr_empty)), NL)
              ELSE <<lines[i]>>])

RECURSIVE translate_po_file(_, _)
\* translate_po_file: the content written back, the items taken in dict order
translate_po_file(lines, translations) ==
    IF translations = <<>> THEN lines
    ELSE translate_po_file(SubnOne(lines, translations[1][1], translations[1][2]),
                           Tail(translations))

InitPo ==
    /\ pc = "init"
    /\ tool = "translate_po"
    /\ poFile \in {Absent} \cup {File(write_po_file("v2", c, {}, {})) : c \in PoCatalogs}
    /\ entries = <<>>
    /\ mappingFile = Absent
    /\ importFile = Absent
    /\ result = [translations |-> <<>>, ok |-> FALSE]
    /\ source = <<>>
    /\ translation = <<>>

\* python3 translate_po.py LANG FILE with the dict of the JSON file
TranslatePo(translations) ==
    /\ pc = "init"
    /\ pc' = "done"
    /\ IF ~poFile.exists
       THEN /\ result' = [translations |-> translations, ok |-> FALSE]
            /\ UNCHANGED poFile
       ELSE /\ result' = [translations |-> translations, ok |-> TRUE]
            /\ poFile' = File(translate_po_file(poFile.content, translations))
    /\ UNCHANGED <<tool, entries, mappingFile, importFile, source, translation>>

NextPo == \E translations \in PoTranslations : TranslatePo(translations)

SpecPo == InitPo /\ [][NextPo]_vars

\* C30: translate_po_file changes only entries without a translation: an entry
\* that holds a translation, in one line or in block form, has the same text
\* and flags afterwards, and an entry that changed had none, is a key of the
\* dict, holds exactly the text given for it and is fuzzy.
C30_OnlyEmptyEntriesChange ==
    [][poFile.exists
       => LET before == parse_po_file(poFile.content)
              after == parse_po_file(poFile'.content)
              given == result'.translations
          IN  /\ Len(after) = Len(before)
              /\ \A i \in 1..Len(before) :
                    /\ before[i].msgstr # <<>>
                       => /\ after[i].msgstr = before[i].msgstr
                          /\ after[i].flags = before[i].flags
                    /\ (after[i].msgstr # before[i].msgstr \/ after[i].flags # before[i].flags)
                       => /\ before[i].msgstr = <<>>
                          /\ \E k \in 1..Len(given) :
                                given[k][1] = before[i].msgid /\ after[i].msgstr = given[k][2]
                          /\ is_fuzzy(after[i])]_vars

====
